---- MODULE Spec2Model ----
(***************************************************************************)
(* A model of the provider credential / auth lifecycle of the AI           *)
(* subscription monitor: the keychain read cache (keychain_cache.ts), the  *)
(* login cooldown (autoLogin of the Anthropic and Gemini providers), the   *)
(* file credential adapters and the per-provider fetch cycles.             *)
(*                                                                         *)
(* Time is in milliseconds, as Date.now() gives it.  Every await of the    *)
(* source is a step boundary: the code between two awaits is one action.   *)
(***************************************************************************)
EXTENDS Integers, Sequences, FiniteSets, TLC

(***************************************************************************)
(* Program constants                                                       *)
(***************************************************************************)
DEFAULT_TTL == 30 * 60 * 1000

LOGIN_COOLDOWN_MS == 120000

(***************************************************************************)
(* Bounds of the model                                                     *)
(***************************************************************************)
\* how many times the clock advances in one behaviour
MaxTicks == 2

\* how many getKeychainPassword calls can be in flight at once
MaxCalls == 2

\* how many store lookups getKeychainPassword starts in one behaviour
MaxLookups == 3

\* how many polls the main loop runs
MaxPolls == 2

\* how many fetch cycles one provider runs
MaxCycles == 2

\* how many times a companion CLI rewrites its credential file
MaxFileWrites == 1

\* how many times the OS credential store changes behind the program's back
MaxStoreChanges == 1

\* how many fetch() calls of one provider can be in flight at once
MaxOverlap == 2

\* how many quota buckets retrieveUserQuota returns
MaxBuckets == 2

\* The wall clock when the process starts.  Date.now() is far larger than
\* any TTL or cooldown; the model starts late enough for that to be true.
StartTime == 2 * DEFAULT_TTL

\* The amounts by which the clock advances between autoLogin() calls: 59 s,
\* 60 s and 61 s, so that 60 s, 119 s, 120 s and 121 s after a launch are reached.
TickSteps == {59000, 60000, 61000}

\* ... and for the cache: 1 ms short of a minute (and of 30 minutes) after a
\* read, and the full minute (and 30 minutes)
CacheTickSteps == {1, 59999, DEFAULT_TTL - 1}

(***************************************************************************)
(* Values                                                                  *)
(***************************************************************************)
\* JavaScript null / undefined
NULL == "<null>"

\* The two keychain entries the program reads: 'Claude Code-credentials'
\* (readClaudeCredentials) and 'cursor-access-token' (readCursorToken).
Keys == {"Claude Code-credentials", "cursor-access-token"}

\* What `security find-generic-password -w` can print for an entry: nothing
\* (no entry, or the lookup failed or timed out), or a secret.
\*   "credA", "credB"  well-formed Claude credentials with a refresh token
\*   "credNoRefresh"   a well-formed Claude credential without refresh token
\*   "noOauth"         JSON without claudeAiOauth.accessToken
\*   "garbage"         not JSON
\*   "cursorTok"       a Cursor access token
Secrets == {"credA", "credB", "credNoRefresh", "noOauth", "garbage", "cursorTok"}

Stdout == Secrets \cup {""}

\* The TTLs a read is made with: 0 (forced), one minute, and the default.
TTLs == {0, 60000, DEFAULT_TTL}

VARIABLES
    now,                \* Date.now()
    ticks,              \* how often the clock has advanced
    store,              \* the OS credential store: key -> stdout of the lookup
    storeChanges,       \* how often the store has changed
    cacheFile,          \* the cache file: key -> entry
    calls,              \* the getKeychainPassword calls: slot -> call
    lastRead,           \* per key, the entry written by the last-completing store read
    lastDone,           \* the last completed getKeychainPassword call
    lookups,            \* how many store lookups have been started
    lastLoginLaunchAt,  \* provider -> time of the last successful launch (module variable)
    launches,           \* provider -> number of external launches so far
    prevLaunchAt,       \* provider -> when the launcher last started a flow (0: never)
    firstLaunchAt,      \* provider -> when the launcher first started a flow (0: never)
    flow,               \* provider -> the external login flow: none, running, finished
    lastCall,           \* provider -> what the last autoLogin() call did
    files,              \* the credential files: path -> content
    fileWrites,         \* how often a companion CLI has rewritten its file
    lastFileRead,       \* the last credential read of a file provider
    prov,               \* the provider whose fetch cycles this behaviour follows
    manual,             \* its manual configuration (config.yaml)
    missingOauth,       \* GEMINI_CLIENT_ID or GEMINI_CLIENT_SECRET is not set
    pc,                 \* the await fetch() is at ("idle": no fetch is running)
    loc,                \* the locals of the running fetch()
    log,                \* the external calls of the current cycle, in order
    result,             \* what the last fetch() call has returned (nothing while it runs)
    cycles,             \* how many fetch cycles have started
    cachedResults,      \* index.ts: key -> the last SubscriptionInfo stored
    task,               \* poll -> key -> its updateProvider: none, fetching, settled
    pending,            \* poll -> its Promise.all has not resolved yet
    polls,              \* how many polls have started
    lastSettle,         \* the last updateProvider to end
    fnInput,            \* the arguments a formatting function is called with
    fnOutput,           \* what the function has returned (nothing before the call)
    fetches,            \* the overlapping fetch() calls of the timer's polls: slot -> call
    cleared             \* the keys clearCache has removed and no read has asked for since

clockVars == <<now, ticks>>
cacheVars == <<store, storeChanges, cacheFile, calls, lastRead, lastDone, lookups>>
loginVars == <<lastLoginLaunchAt, launches, prevLaunchAt, firstLaunchAt, flow, lastCall>>
fileVars == <<files, fileWrites, lastFileRead>>
fetchVars == <<prov, manual, missingOauth, pc, loc, log, result, cycles>>
formatVars == <<fnInput, fnOutput>>
overlapVars == <<fetches>>
clearVars == <<cleared>>
providerVars == <<clockVars, cacheVars, loginVars, fileVars, fetchVars, formatVars, overlapVars, clearVars>>
runVars == <<cachedResults, task, pending, polls, lastSettle>>
vars == <<clockVars, cacheVars, loginVars, fileVars, fetchVars, runVars, formatVars, overlapVars, clearVars>>

(***************************************************************************)
(* The clock                                                               *)
(***************************************************************************)
Tick(d) ==
    /\ ticks < MaxTicks
    /\ now' = now + d
    /\ ticks' = ticks + 1

(***************************************************************************)
(* keychain_cache.ts                                                       *)
(***************************************************************************)
\* cache[serviceName] of a key the cache does not hold (undefined)
NoEntry == [present |-> FALSE, value |-> NULL, timestamp |-> 0]

Entry(v, t) == [present |-> TRUE, value |-> v, timestamp |-> t]

\* loadCache(): the parsed file, {} when it is missing or unreadable
EmptyCache == [k \in Keys |-> NoEntry]

\* a freshness test that still takes an entry whose age equals the TTL
CacheFreshInclusive(cached, t, ttl) == cached.present /\ (t - cached.timestamp) <= ttl

\* a freshness test that takes any entry, whatever its age and the TTL
CacheFreshIgnoresTTL(cached, t, ttl) == cached.present

\* line 51: cached && (now - cached.timestamp) < ttl
CacheFresh(cached, t, ttl) == cached.present /\ (t - cached.timestamp) < ttl

\* line 56: const value = stdout || null
StoreValue(stdout) == IF stdout = "" THEN NULL ELSE stdout

\* lines 58-59: cache[serviceName] = { value, timestamp: now }; saveCache(cache)
\* `cache` is the object loadCache() returned before the await, `t` the `now`
\* taken at the top of the call.
WriteBack(cache, k, v, t) == [cache EXCEPT ![k] = Entry(v, t)]

IdleCall == [st |-> "idle", key |-> "", ts |-> 0, snap |-> EmptyCache]

\* what the last getKeychainPassword call to return was asked and resolved to
NoDone == [called |-> FALSE, key |-> "", ret |-> NULL, hit |-> FALSE]

NoCalls == [c \in 1..MaxCalls |-> IdleCall]

NoReads == [k \in Keys |-> NoEntry]

\* the store when the process starts: nobody has logged in, or both tools have
InitStore == {[k \in Keys |-> ""],
              [k \in Keys |-> IF k = "Claude Code-credentials" THEN "credA" ELSE "cursorTok"]}

\* the slot a new call takes: the first free one (the slots are interchangeable)
FreeSlot(c) == calls[c].st = "idle" /\ \A d \in 1..MaxCalls : d < c => calls[d].st # "idle"

\* getKeychainPassword, lines 46-55: up to the await of the store lookup.
\* A fresh entry returns at once; otherwise the lookup is started, and the
\* call keeps the `now` and the `cache` object it has.
GetKeychainPasswordBegin(c, k, ttl) ==
    /\ FreeSlot(c)
    /\ LET cache == cacheFile
           cached == cache[k]
       IN IF CacheFresh(cached, now, ttl)
          THEN /\ lastDone' = [called |-> TRUE, key |-> k, ret |-> cached.value,
                               hit |-> TRUE]
               /\ UNCHANGED <<calls, lookups>>
          ELSE /\ calls' = [calls EXCEPT ![c] =
                      [st |-> "wait", key |-> k, ts |-> now, snap |-> cache]]
               /\ lookups' = lookups + 1
               /\ UNCHANGED lastDone
    /\ UNCHANGED <<store, storeChanges, cacheFile, lastRead>>

\* getKeychainPassword, lines 55-61: the lookup returns `stdout` (the entry's
\* secret, or nothing when the entry is missing or the lookup fails).
GetKeychainPasswordEnd(c, failed) ==
    /\ calls[c].st = "wait"
    /\ LET k == calls[c].key
           stdout == IF failed THEN "" ELSE store[k]
           value == StoreValue(stdout)
       IN /\ cacheFile' = WriteBack(calls[c].snap, k, value, calls[c].ts)
          /\ lastRead' = [lastRead EXCEPT ![k] = Entry(value, calls[c].ts)]
          /\ lastDone' = [called |-> TRUE, key |-> k, ret |-> value, hit |-> FALSE]
          /\ calls' = [calls EXCEPT ![c] = IdleCall]
    /\ UNCHANGED <<store, storeChanges, lookups>>

\* clearCache, lines 64-76: with a service name, the loaded cache without
\* that key is saved; without one the cache file is removed. It has no await.
ClearCache(serviceName) ==
    /\ cacheFile' = IF serviceName # NULL
                    THEN [cacheFile EXCEPT ![serviceName] = NoEntry]
                    ELSE EmptyCache
    /\ UNCHANGED <<store, storeChanges, calls, lastRead, lastDone, lookups>>

\* what a login flow (or a logout) leaves in an entry of the store
StoreWrites(k) == IF k = "Claude Code-credentials" THEN {"", "credB"} ELSE {"", "cursorTok"}

\* The companion tool's login flow (or the user) rewrites an entry of the store.
StoreChange(k, v) ==
    /\ storeChanges < MaxStoreChanges
    /\ store[k] # v
    /\ store' = [store EXCEPT ![k] = v]
    /\ storeChanges' = storeChanges + 1
    /\ UNCHANGED <<cacheFile, calls, lastRead, lastDone, lookups>>

(***************************************************************************)
(* autoLogin() of AnthropicProvider and GeminiProvider                     *)
(***************************************************************************)
LoginProviders == {"claude", "gemini"}

\* runDetachedCommand / runBackgroundCommand: the flow was started, could not
\* be started (false), or the helper threw.
LaunchOutcomes == {"started", "failed", "threw"}

\* the comparison taken the wrong way at the boundary
CooldownActiveInclusive(t, last) == t - last <= LOGIN_COOLDOWN_MS

\* the cooldown test of an instance that keeps its own timestamp, which is 0
\* in a new instance
CooldownOfNewInstance(t, last) == t - 0 < LOGIN_COOLDOWN_MS

\* line 240 / 316: Date.now() - lastLoginLaunchAt < LOGIN_COOLDOWN_MS
CooldownActive(t, last) == t - last < LOGIN_COOLDOWN_MS

\* autoLogin() without the cooldown check of lines 240-243 / 316-319
AutoLoginNoCooldown(t, last, outcome) ==
    IF outcome = "started"
    THEN [ret |-> TRUE, attempted |-> TRUE, launched |-> TRUE, last |-> t]
    ELSE [ret |-> FALSE, attempted |-> TRUE, launched |-> FALSE, last |-> last]

\* autoLogin() recording the time of a launch that did not start
AutoLoginStampsFailure(t, last, outcome) ==
    IF CooldownActive(t, last)
    THEN [ret |-> TRUE, attempted |-> FALSE, launched |-> FALSE, last |-> last]
    ELSE IF outcome = "started"
         THEN [ret |-> TRUE, attempted |-> TRUE, launched |-> TRUE, last |-> t]
         ELSE [ret |-> FALSE, attempted |-> TRUE, launched |-> FALSE, last |-> t]

\* autoLogin() whose write of lastLoginLaunchAt comes after a suspension
\* point: the call returns before the write is made
AutoLoginWriteDeferred(t, last, outcome) ==
    IF CooldownActive(t, last)
    THEN [ret |-> TRUE, attempted |-> FALSE, launched |-> FALSE, last |-> last]
    ELSE IF outcome = "started"
         THEN [ret |-> TRUE, attempted |-> TRUE, launched |-> TRUE, last |-> last]
         ELSE [ret |-> FALSE, attempted |-> TRUE, launched |-> FALSE, last |-> last]

\* autoLogin() answering false while a flow is believed in progress
AutoLoginCooldownFalse(t, last, outcome) ==
    IF CooldownActive(t, last)
    THEN [ret |-> FALSE, attempted |-> FALSE, launched |-> FALSE, last |-> last]
    ELSE IF outcome = "started"
         THEN [ret |-> TRUE, attempted |-> TRUE, launched |-> TRUE, last |-> t]
         ELSE [ret |-> FALSE, attempted |-> TRUE, launched |-> FALSE, last |-> last]

\* autoLogin(): the value returned and the new lastLoginLaunchAt, for a call
\* at time t whose launch helper (if it is reached) ends in `outcome`.
AutoLoginResult(t, last, outcome) ==
    IF CooldownActive(t, last)
    THEN [ret |-> TRUE, attempted |-> FALSE, launched |-> FALSE, last |-> last]
    ELSE IF outcome = "started"
         THEN [ret |-> TRUE, attempted |-> TRUE, launched |-> TRUE, last |-> t]
         ELSE [ret |-> FALSE, attempted |-> TRUE, launched |-> FALSE, last |-> last]

NoCall == [called |-> FALSE, at |-> 0, before |-> 0, prevLaunch |-> 0, outcome |-> "",
           flow |-> "none", ret |-> FALSE, attempted |-> FALSE, launched |-> FALSE,
           after |-> 0, countBefore |-> 0, count |-> 0]

\* One autoLogin() call on an instance of provider p.  The body has no await:
\* it runs to its return in one step.  A launch starts the external flow;
\* autoLogin() does not wait for it.
AutoLogin(p, outcome) ==
    LET r == AutoLoginResult(now, lastLoginLaunchAt[p], outcome)
        n == launches[p] + (IF r.launched THEN 1 ELSE 0)
    IN /\ lastLoginLaunchAt' = [lastLoginLaunchAt EXCEPT ![p] = r.last]
       /\ launches' = [launches EXCEPT ![p] = n]
       /\ prevLaunchAt' = [prevLaunchAt EXCEPT ![p] = IF r.launched THEN now ELSE @]
       /\ firstLaunchAt' = [firstLaunchAt EXCEPT
              ![p] = IF r.launched /\ launches[p] = 0 THEN now ELSE @]
       /\ flow' = [flow EXCEPT ![p] = IF r.launched THEN "running" ELSE @]
       /\ lastCall' = [lastCall EXCEPT ![p] =
              [called |-> TRUE, at |-> now, before |-> lastLoginLaunchAt[p],
               prevLaunch |-> prevLaunchAt[p], outcome |-> outcome, flow |-> flow[p],
               ret |-> r.ret, attempted |-> r.attempted, launched |-> r.launched,
               after |-> r.last, countBefore |-> launches[p], count |-> n]]

\* The external flow that a launch started comes to its end (the user has
\* logged in, or has closed the window).
FlowFinish(p) ==
    /\ flow[p] = "running"
    /\ flow' = [flow EXCEPT ![p] = "finished"]
    /\ UNCHANGED <<lastLoginLaunchAt, launches, prevLaunchAt, firstLaunchAt, lastCall>>

(***************************************************************************)
(* Texts.  A string is the sequence of its pieces; a piece is one           *)
(* whitespace character, or a run of characters with a visible character   *)
(* at either end.  "" is << >>.                                            *)
(***************************************************************************)
\* The white space of String.prototype.trim() and of \s in a regular
\* expression, as far as the strings of this module hold it: space, line
\* feed, tab, carriage return and form feed.
Whitespace == {" ", "\n", "\t", "\r", "\f"}

\* a string literal that is not empty and has no whitespace at either end
T(s) == <<s>>

EmptyText == << >>

\* JavaScript truthiness of a string
Truthy(t) == Len(t) > 0

RECURSIVE TrimStart(_)
TrimStart(t) ==
    IF t = << >> THEN << >>
    ELSE IF Head(t) \in Whitespace THEN TrimStart(Tail(t)) ELSE t

RECURSIVE TrimEnd(_)
TrimEnd(t) ==
    IF t = << >> THEN << >>
    ELSE IF t[Len(t)] \in Whitespace THEN TrimEnd(SubSeq(t, 1, Len(t) - 1)) ELSE t

\* String.prototype.trim()
Trim(t) == TrimEnd(TrimStart(t))

\* a || b without the fallback
NoFallback(a, b) == a

\* a || b for strings
OrElse(a, b) == IF Truthy(a) THEN a ELSE b

\* the placeholder, an em dash (U+2014)
Placeholder == <<"--">>

\* the display text without the status line (what is left of the assembly
\* when the status line is dropped)
UsageOnly(statusLine, usage) == Trim(usage)

\* const fullUsage = usage ? `${statusLine}\n${usage}` : statusLine;
\* usage_text: fullUsage.trim() || placeholder      (anthropic.ts 227-231, gemini.ts
\* 303-307, openai.ts 176-180, part_001 117-121)
UsageText(statusLine, usage) ==
    LET fullUsage == IF Truthy(usage) THEN statusLine \o <<"\n">> \o usage ELSE statusLine
    IN OrElse(Trim(fullUsage), Placeholder)

(***************************************************************************)
(* The file credential adapters of openai.ts and gemini.ts                 *)
(***************************************************************************)
\* ~/.codex/auth.json, $XDG_CONFIG_HOME/ai_subscription_monitor/codex_auth.json,
\* ~/.gemini/oauth_creds.json, .../ai_subscription_monitor/gemini_oauth_creds.json
FilePaths == {"codexLegacy", "codexNew", "geminiLegacy", "geminiNew"}

FileProviders == {"openai", "gemini"}

LegacyPath(p) == IF p = "openai" THEN "codexLegacy" ELSE "geminiLegacy"

NewPath(p) == IF p = "openai" THEN "codexNew" ELSE "geminiNew"

\* The content of a credential file.  "flat" is a JSON object with the fields
\* at the top level ({"access_token": .., "refresh_token": .., "id_token": ..}),
\* "nested" one with the fields under "tokens" ({"tokens": {"access_token": ..,
\* "account_id": .., "id_token": ..}}), "garbage" is not JSON.  A field that
\* the object does not have is "".
Absent == [kind |-> "absent", at |-> "", rt |-> "", idt |-> "", acct |-> ""]

Garbage == [kind |-> "garbage", at |-> "", rt |-> "", idt |-> "", acct |-> ""]

Flat(at, rt, idt) == [kind |-> "flat", at |-> at, rt |-> rt, idt |-> idt, acct |-> ""]

Nested(at, acct, idt) == [kind |-> "nested", at |-> at, rt |-> "", idt |-> idt, acct |-> acct]

\* fs.existsSync(path)
Exists(fs, path) == fs[path].kind # "absent"

\* parseJwt(id_token).email: "jwtUser" carries an email claim, anything else
\* (a token without payload, without email, or none at all) gives none
JwtEmail(idt) == IF idt = "jwtUser" THEN "user@example.com" ELSE ""

\* migrateFromLegacy() (openai.ts 23-38, gemini.ts 29-44): the files afterwards
MigrateFromLegacy(fs, p) ==
    IF Exists(fs, NewPath(p)) THEN fs
    ELSE IF ~Exists(fs, LegacyPath(p)) THEN fs
    ELSE [fs EXCEPT ![NewPath(p)] = fs[LegacyPath(p)]]

\* JSON.parse of a credential file as the gemini code reads it: null when the
\* parse throws, else the object's top-level fields
NoCreds == [ok |-> FALSE, at |-> "", rt |-> "", idt |-> ""]

\* a parse that gives an empty object for a file that is not JSON
ParseGeminiLenient(content) ==
    IF content.kind = "flat"
    THEN [ok |-> TRUE, at |-> content.at, rt |-> content.rt, idt |-> content.idt]
    ELSE IF content.kind \in {"nested", "garbage"}
    THEN [ok |-> TRUE, at |-> "", rt |-> "", idt |-> ""]
    ELSE NoCreds

ParseGemini(content) ==
    IF content.kind = "flat"
    THEN [ok |-> TRUE, at |-> content.at, rt |-> content.rt, idt |-> content.idt]
    ELSE IF content.kind = "nested"
    THEN [ok |-> TRUE, at |-> "", rt |-> "", idt |-> ""]
    ELSE NoCreds

\* readGeminiCreds() (gemini.ts 46-62): the legacy file when it exists, else
\* the new file, else null; a parse error gives null
ReadGeminiCreds(fs) ==
    IF Exists(fs, "geminiLegacy") THEN ParseGemini(fs["geminiLegacy"])
    ELSE IF ~Exists(fs, "geminiNew") THEN NoCreds
    ELSE ParseGemini(fs["geminiNew"])

\* readCodexAuth() (openai.ts 40-64) after its migrateFromLegacy(): what the
\* new-path file gives.  tokens = data.tokens || {}.
NoAuth == [token |-> "", accountId |-> "", email |-> ""]

ParseCodex(content) ==
    IF content.kind = "nested"
    THEN [token |-> content.at, accountId |-> content.acct, email |-> JwtEmail(content.idt)]
    ELSE NoAuth

ReadCodexAuth(fs) == ParseCodex(MigrateFromLegacy(fs, "openai")["codexNew"])

\* the response of the OAuth refresh grant as saveGeminiCreds gets it: the
\* fields it carries ("" for a field it does not carry)
RefreshResponse(at, idt) == [at |-> at, idt |-> idt]

\* a save that writes the refresh response alone, without the existing object
SaveResponseOnly(fs, data) == [fs EXCEPT !["geminiNew"] = Flat(data.at, "", data.idt)]

\* saveGeminiCreds(data) (gemini.ts 64-74): Object.assign(readGeminiCreds() || {},
\* data), written to the new path
SaveGeminiCreds(fs, data) ==
    LET current == ReadGeminiCreds(fs)
        merged == Flat(IF data.at # "" THEN data.at ELSE current.at,
                       current.rt,
                       IF data.idt # "" THEN data.idt ELSE current.idt)
    IN [fs EXCEPT !["geminiNew"] = merged]

\* the token a credential read hands to the fetch ("" for none)
ReadToken(fs, p) == IF p = "openai" THEN ReadCodexAuth(fs).token ELSE ReadGeminiCreds(fs).at

\* the files after a credential read: readCodexAuth migrates, readGeminiCreds
\* only reads
FilesAfterRead(fs, p) == IF p = "openai" THEN MigrateFromLegacy(fs, "openai") ELSE fs

NoFileRead == [called |-> FALSE, p |-> "", pre |-> [f \in FilePaths |-> Absent],
               post |-> [f \in FilePaths |-> Absent], token |-> ""]

\* One credential read of a file provider: readCodexAuth() or readGeminiCreds().
ReadCredentials(p) ==
    /\ files' = FilesAfterRead(files, p)
    /\ lastFileRead' = [called |-> TRUE, p |-> p, pre |-> files,
                        post |-> FilesAfterRead(files, p), token |-> ReadToken(files, p)]
    /\ UNCHANGED fileWrites

\* The refreshed tokens are saved (the Gemini fetch after a refresh grant).
SaveRefreshed(data) ==
    /\ files' = SaveGeminiCreds(files, data)
    /\ UNCHANGED <<lastFileRead, fileWrites>>

\* The companion CLI (codex login, gemini) rewrites its own credential file.
CliWrites(p, content) ==
    /\ fileWrites < MaxFileWrites
    /\ files[LegacyPath(p)] # content
    /\ files' = [files EXCEPT ![LegacyPath(p)] = content]
    /\ fileWrites' = fileWrites + 1
    /\ UNCHANGED lastFileRead

\* the contents a credential file is given in the model
FileContents(p) ==
    IF p = "openai"
    THEN {Absent, Garbage, Flat("abc", "", ""), Nested("abc", "acct1", "jwtUser"),
          Nested("old", "acct1", "")}
    ELSE {Absent, Garbage, Flat("abc", "", ""), Flat("old", "ref1", "jwtUser")}

(***************************************************************************)
(* The fetch cycle of one provider: what every provider's fetch() shares   *)
(***************************************************************************)
Providers == {"claude", "gemini", "openai", "cursor"}

\* the locals of fetch() at its start
Loc0 == [status |-> EmptyText, statusLine |-> EmptyText, email |-> "", planName |-> "",
         hadCreds |-> FALSE, token |-> "", refreshToken |-> "", retryToken |-> "",
         projectId |-> "", isAuthError |-> FALSE, usage |-> EmptyText,
         resetTime |-> EmptyText, error |-> "", authInProgress |-> FALSE,
         loginSuccess |-> FALSE, slot |-> 0, lookupsAtLogin |-> 0]

\* nothing has been returned yet
NoResult == [returned |-> FALSE, threw |-> FALSE, usage_text |-> EmptyText,
             reset_time |-> EmptyText, error |-> ""]

\* the SubscriptionInfo that fetch() returns (name, limit_note and
\* dashboard_url are constants of the provider)
Info(usage_text, reset_time, error) ==
    [returned |-> TRUE, threw |-> FALSE, usage_text |-> usage_text,
     reset_time |-> reset_time, error |-> error]

\* fetch() rejects: an exception leaves it
Thrown == [returned |-> FALSE, threw |-> TRUE, usage_text |-> EmptyText,
           reset_time |-> EmptyText, error |-> ""]

\* one external call of the cycle: the operation, the bearer token it was
\* made with ("" when it has none) and how it came back
Call(op, token, out) == [op |-> op, token |-> token, out |-> out]

\* the manual configuration of a provider (config.yaml): absent, filled, or a
\* usage text of one blank
Manuals == {[usage_text |-> EmptyText, reset_time |-> EmptyText],
            [usage_text |-> T("manual usage"), reset_time |-> T("manual reset")],
            [usage_text |-> <<" ">>, reset_time |-> EmptyText]}

\* The point fetch() has reached after a step: it awaits the call `pc`, or it
\* has ended ("idle") with `res`.  `login` says that autoLogin() was called in
\* the step, `read` that the Gemini credential file was read.
Go(at, l, lg, login, read) ==
    [pc |-> at, l |-> l, log |-> lg, res |-> NoResult, login |-> login, read |-> read]

Done(res, l, lg, login, read) ==
    [pc |-> "idle", l |-> l, log |-> lg, res |-> res, login |-> login, read |-> read]

\* what autoLogin() returns at this moment for launch outcome o
LoginReturn(p, o) == AutoLoginResult(now, lastLoginLaunchAt[p], o)

LoginCall(p, o) ==
    Call("autoLogin", "",
         IF LoginReturn(p, o).launched THEN "launched"
         ELSE IF LoginReturn(p, o).ret THEN "cooldown" ELSE "failed")

\* `Logged in (${email})`
LoggedIn(email) == <<"Logged in (", email, ")">>

(***************************************************************************)
(* gemini.ts: GeminiProvider.fetch                                         *)
(***************************************************************************)
\* getCliStatus('gemini') (cli_runner.ts 34-40): a fixed text when the binary
\* exists, else null
GeminiCliStatus(installed) == IF installed THEN T("gemini installed") ELSE EmptyText

\* how loadCodeAssist can come back: a project, a 200 without
\* cloudaicompanionProject, a 401, any other failure
ProjectOutcomes == {"ok", "noProject", "e401", "err"}

\* getProjectId (gemini.ts 91-106)
GetProjectId(out) ==
    [projectId |-> IF out = "ok" THEN "proj1" ELSE "", isAuthError |-> out = "e401"]

\* how the token endpoint can come back: tokens, a 200 without access_token,
\* any failure
RefreshOutcomes == {"tokens", "noToken", "err"}

\* refreshAccessToken (gemini.ts 76-89): resp.data, null on failure
RefreshData(out) == IF out = "tokens" THEN RefreshResponse("tokNew", "")
                    ELSE RefreshResponse("", "")

\* the retry keeps the token the first call was made with
StaleToken(token, newTokens) == token

\* line 212: token = newTokens.access_token
RefreshedToken(token, newTokens) == newTokens.at

\* how retrieveUserQuota can come back: buckets, a 200 without a bucket list,
\* a 200 whose `buckets` is not a list of objects, a 401, any other failure
QuotaOutcomes == {"ok", "noBuckets", "badBuckets", "e401", "err"}

\* getQuota (108-122) and formatQuota (124-171) of what it returns: `buckets`
\* is whether getQuota returned something truthy, `throws` whether
\* formatQuota throws on it (buckets.sort is not a function, or a bucket is
\* null)
Quota(out) ==
    [buckets |-> out \in {"ok", "noBuckets", "badBuckets"},
     throws |-> out = "badBuckets",
     usage |-> IF out = "ok" THEN T("gemini-pro : 40.0% Used") ELSE EmptyText,
     resetTime |-> IF out = "ok" THEN T("Reset: 01-02 03:04 +00") ELSE EmptyText]

\* lines 295-312
GeminiInfo(l) ==
    LET usage == OrElse(l.usage, manual.usage_text)
        resetTime == OrElse(l.resetTime, OrElse(manual.reset_time, T("Sliding window")))
        statusLine == OrElse(l.status, IF l.authInProgress THEN T("Re-auth in progress")
                                       ELSE T("Gemini CLI not detected"))
    IN Info(UsageText(statusLine, usage), resetTime, l.error)

\* lines 248-258 (credentials were found) and 281-292 (none were)
GeminiAuthEnd(l, lg, login, read) ==
    LET l1 == IF Truthy(l.usage) THEN l
              ELSE IF l.loginSuccess
              THEN [l EXCEPT !.authInProgress = TRUE,
                             !.status = IF l.hadCreds /\ l.email # ""
                                        THEN <<"Re-auth in progress (", l.email, ")">>
                                        ELSE T("Re-auth in progress"),
                             !.error = IF l.hadCreds
                                       THEN "Authentication expired. Auto refresh triggered in background; waiting next refresh."
                                       ELSE "Auto refresh triggered in background; waiting next refresh."]
              ELSE IF missingOauth
              THEN [l EXCEPT !.error = IF l.hadCreds
                                       THEN "Token expired. Please run 'gemini' CLI to refresh."
                                       ELSE "Missing GEMINI_CLIENT_ID / GEMINI_CLIENT_SECRET"]
              ELSE [l EXCEPT !.error = IF l.hadCreds
                                       THEN "Authentication failed (cannot refresh token)"
                                       ELSE "Not found: gemini_oauth_creds.json"]
    IN Done(GeminiInfo(l1), l1, lg, login, read)

\* lines 231-236 and 265-269: autoLogin(), and when it returns true the
\* credentials are read again; up to the await of getProjectId
GeminiLogin(l, lg, o) ==
    LET r == LoginReturn("gemini", o)
        l1 == [l EXCEPT !.loginSuccess = r.ret, !.lookupsAtLogin = lookups]
        lg1 == Append(lg, LoginCall("gemini", o))
        newCreds == ReadGeminiCreds(files)
    IN IF ~r.ret THEN GeminiAuthEnd(l1, lg1, TRUE, FALSE)
       ELSE IF newCreds.at = ""
       THEN GeminiAuthEnd(l1, Append(lg1, Call("readCreds", "", "none")), TRUE, TRUE)
       ELSE Go("g_proj3", [l1 EXCEPT !.retryToken = newCreds.at],
               Append(lg1, Call("readCreds", newCreds.at, "found")), TRUE, TRUE)

\* lines 219-261, up to the next await
GeminiAfterRefresh(l, lg, o) ==
    IF l.projectId # "" /\ l.token # "" THEN Go("g_quota", l, lg, FALSE, FALSE)
    ELSE IF l.isAuthError THEN GeminiLogin(l, lg, o)
    ELSE LET l1 == [l EXCEPT !.error = "Failed to get project ID"]
         IN Done(GeminiInfo(l1), l1, lg, FALSE, FALSE)

\* a fetch that goes from a rejected token to autoLogin() without the refresh
GeminiLoginWithoutRefresh(l, lg, o) == GeminiAfterRefresh(l, lg, o)

\* lines 208-209, up to the next await.  refreshAccessToken returns null
\* without a request when the client id or secret is missing (line 77).
GeminiAfterProject(l, lg, o) ==
    IF (l.isAuthError \/ l.token = "") /\ l.refreshToken # ""
    THEN IF missingOauth
         THEN GeminiAfterRefresh(l, Append(lg, Call("refresh", "", "notSent")), o)
         ELSE Go("g_refresh", l, lg, FALSE, FALSE)
    ELSE GeminiAfterRefresh(l, lg, o)

\* lines 187-206 after getCliStatus has returned
GeminiAfterCli(installed, o) ==
    LET creds == ReadGeminiCreds(files)
        email == JwtEmail(creds.idt)
        l0 == [loc EXCEPT !.status = GeminiCliStatus(installed)]
        lg0 == Append(log, Call("readCreds", creds.at, IF creds.ok THEN "found" ELSE "none"))
        l1 == [l0 EXCEPT !.hadCreds = TRUE, !.email = email,
                         !.status = IF email # "" THEN LoggedIn(email) ELSE @,
                         !.token = creds.at, !.refreshToken = creds.rt]
    IN IF ~creds.ok THEN [GeminiLogin(l0, lg0, o) EXCEPT !.read = TRUE]
       ELSE IF creds.at # "" THEN Go("g_proj1", l1, lg0, FALSE, TRUE)
       ELSE [GeminiAfterProject([l1 EXCEPT !.isAuthError = TRUE], lg0, o) EXCEPT !.read = TRUE]

\* a step of fetch() takes the cycle to the point f
Step(f, p, o) ==
    /\ pc' = f.pc
    /\ loc' = f.l
    /\ log' = f.log
    /\ result' = f.res
    /\ IF f.login THEN AutoLogin(p, o) ELSE UNCHANGED loginVars
    /\ UNCHANGED <<prov, manual, missingOauth, cycles>>

\* fetch() is called (updateProvider, part_006 line 61), and runs to its
\* first await: getCliStatus
FetchStart(p) ==
    /\ prov = p /\ pc = "idle" /\ cycles < MaxCycles
    /\ pc' = IF p = "gemini" THEN "g_cli" ELSE IF p = "openai" THEN "o_cli" ELSE "c_cli"
    /\ loc' = Loc0
    /\ log' = << >>
    /\ cycles' = cycles + 1
    /\ result' = NoResult
    /\ UNCHANGED <<prov, manual, missingOauth>>

\* getCliStatus returns; lines 179-206
GeminiCli(installed, o) ==
    /\ prov = "gemini" /\ pc = "g_cli"
    /\ LET f == GeminiAfterCli(installed, o)
       IN Step(f, "gemini", o) /\ ReadCredentials("gemini")

\* the first getProjectId returns; line 206
GeminiProject1(out, o) ==
    /\ prov = "gemini" /\ pc = "g_proj1"
    /\ LET r == GetProjectId(out)
           l1 == [loc EXCEPT !.projectId = r.projectId, !.isAuthError = r.isAuthError]
           f == GeminiAfterProject(l1, Append(log, Call("getProjectId", loc.token, out)), o)
       IN /\ Step(f, "gemini", o)
          /\ IF f.read THEN ReadCredentials("gemini") ELSE UNCHANGED fileVars

\* the refresh grant returns; lines 209-213
GeminiRefresh(out, o) ==
    /\ prov = "gemini" /\ pc = "g_refresh"
    /\ LET newTokens == RefreshData(out)
           lg1 == Append(log, Call("refresh", loc.refreshToken, out))
       IN IF out = "err"
          THEN LET f == GeminiAfterRefresh(loc, lg1, o)
               IN /\ Step(f, "gemini", o)
                  /\ IF f.read THEN ReadCredentials("gemini") ELSE UNCHANGED fileVars
          ELSE /\ SaveRefreshed(newTokens)
               /\ Step(Go("g_proj2", [loc EXCEPT !.token = RefreshedToken(loc.token, newTokens)],
                          lg1, FALSE, FALSE), "gemini", o)

\* the getProjectId after the refresh returns; lines 213-215
GeminiProject2(out, o) ==
    /\ prov = "gemini" /\ pc = "g_proj2"
    /\ LET r == GetProjectId(out)
           l1 == [loc EXCEPT !.projectId = r.projectId, !.isAuthError = r.isAuthError]
           f == GeminiAfterRefresh(l1, Append(log, Call("getProjectId", loc.token, out)), o)
       IN /\ Step(f, "gemini", o)
          /\ IF f.read THEN ReadCredentials("gemini") ELSE UNCHANGED fileVars

\* getQuota returns; lines 220-227
GeminiQuota(out) ==
    /\ prov = "gemini" /\ pc = "g_quota"
    /\ LET q == Quota(out)
           lg1 == Append(log, Call("getQuota", loc.token, out))
           l1 == IF q.buckets
                 THEN [loc EXCEPT !.usage = q.usage, !.resetTime = q.resetTime]
                 ELSE [loc EXCEPT !.error = "Failed to fetch usage"]
           f == IF q.buckets /\ q.throws THEN Done(Thrown, loc, lg1, FALSE, FALSE)
                ELSE Done(GeminiInfo(l1), l1, lg1, FALSE, FALSE)
       IN Step(f, "gemini", "failed") /\ UNCHANGED fileVars

\* the getProjectId after autoLogin returns; lines 236-237 and 269-270
GeminiProject3(out) ==
    /\ prov = "gemini" /\ pc = "g_proj3"
    /\ LET r == GetProjectId(out)
           lg1 == Append(log, Call("getProjectId", loc.retryToken, out))
           f == IF r.projectId # ""
                THEN Go("g_quota3", [loc EXCEPT !.projectId = r.projectId], lg1, FALSE, FALSE)
                ELSE GeminiAuthEnd(loc, lg1, FALSE, FALSE)
       IN Step(f, "gemini", "failed") /\ UNCHANGED fileVars

\* the getQuota after autoLogin returns; lines 238-244 and 271-277
GeminiQuota3(out) ==
    /\ prov = "gemini" /\ pc = "g_quota3"
    /\ LET q == Quota(out)
           lg1 == Append(log, Call("getQuota", loc.retryToken, out))
           l1 == IF q.buckets
                 THEN [loc EXCEPT !.usage = q.usage, !.resetTime = q.resetTime, !.error = ""]
                 ELSE loc
           f == IF q.buckets /\ q.throws THEN Done(Thrown, loc, lg1, FALSE, FALSE)
                ELSE GeminiAuthEnd(l1, lg1, FALSE, FALSE)
       IN Step(f, "gemini", "failed") /\ UNCHANGED fileVars

(***************************************************************************)
(* anthropic.ts: AnthropicProvider.fetch                                   *)
(***************************************************************************)
ClaudeKey == "Claude Code-credentials"

\* readClaudeCredentials, lines 22-36: the credentials in what the keychain
\* read returned, or null
NoClaudeCreds == [ok |-> FALSE, accessToken |-> "", refreshToken |-> "", subscriptionType |-> ""]

ParseClaude(raw) ==
    IF raw = "credA"
    THEN [ok |-> TRUE, accessToken |-> "tokA", refreshToken |-> "refA", subscriptionType |-> "pro"]
    ELSE IF raw = "credB"
    THEN [ok |-> TRUE, accessToken |-> "tokB", refreshToken |-> "refB", subscriptionType |-> "pro"]
    ELSE IF raw = "credNoRefresh"
    THEN [ok |-> TRUE, accessToken |-> "tokN", refreshToken |-> "", subscriptionType |-> ""]
    ELSE NoClaudeCreds

\* the read keeps the default TTL whatever forceRefresh is
ReadTTLDefault(forceRefresh) == DEFAULT_TTL

\* lines 19-21: the TTL readClaudeCredentials reads the keychain with
ReadTTL(forceRefresh) == IF forceRefresh THEN 0 ELSE DEFAULT_TTL

\* lines 143-149 and 198-204: subType = creds.subscriptionType || "unknown",
\* planName = subMap[subType] || subType.  subMap[subType] also finds what
\* the object literal inherits from Object.prototype, and the status line
\* prints it as a string.
PlanName(subscriptionType) ==
    LET subType == IF subscriptionType = "" THEN "unknown" ELSE subscriptionType
        inherited == {"toString", "toLocaleString", "valueOf", "hasOwnProperty",
                      "isPrototypeOf", "propertyIsEnumerable", "__defineGetter__",
                      "__defineSetter__", "__lookupGetter__", "__lookupSetter__"}
    IN IF subType = "pro" THEN "Claude Pro"
       ELSE IF subType = "free" THEN "Claude Free"
       ELSE IF subType = "team" THEN "Claude Team"
       ELSE IF subType = "constructor" THEN "function Object() { [native code] }"
       ELSE IF subType \in inherited
       THEN "function " \o subType \o "() { [native code] }"
       ELSE IF subType = "__proto__" THEN "[object Object]"
       ELSE subType

\* how the profile request can come back: with the account's email, or not
ProfileOutcomes == {"email", "none"}

\* lines 151-155 and 206-210
ClaudeStatusLine(out, planName) ==
    IF out = "email" THEN <<"Logged in (", "user@example.com", " - ", planName, ")">>
    ELSE <<"Logged in (", planName, ")">>

\* how the usage request can come back: a usage object, a 200 with an object
\* that has no window (a malformed or empty payload), a 200 whose utilization
\* is not a number, a 200 with an empty body, a 401, any other failure
UsageOutcomes == {"ok", "noWindows", "badType", "emptyBody", "e401", "err"}

\* fetchUsage (41-59)
FetchUsage(out) ==
    [data |-> out \in {"ok", "noWindows", "badType"}, isAuthError |-> out = "e401"]

\* formatUsage (83-126) of result.data: util.toFixed throws when utilization
\* is not a number
FormatUsage(out) ==
    [throws |-> out = "badType",
     text |-> IF out = "ok" THEN <<"5h Window: 40%", "\n", "7d Window: 10%">> ELSE EmptyText]

\* lines 223-236
ClaudeInfo(l) ==
    Info(UsageText(l.statusLine, OrElse(l.usage, manual.usage_text)), EmptyText, l.error)

\* lines 176-182 (credentials were found) and 214-220 (none were)
ClaudeAuthEnd(l, lg, login) ==
    LET l1 == IF Truthy(l.usage) THEN l
              ELSE IF l.hadCreds
              THEN [l EXCEPT !.error = IF l.loginSuccess
                        THEN "Token expired. Login flow started in background; complete it and wait next refresh."
                        ELSE "Token expired, auto-login failed"]
              ELSE [l EXCEPT !.statusLine = IF l.loginSuccess
                        THEN T("Login flow started in background")
                        ELSE T("Claude login not detected")]
    IN Done(ClaudeInfo(l1), l1, lg, login, FALSE)

\* an autoLogin() step after which the credentials are read again whatever
\* autoLogin() returned
ClaudeLoginThenReread(l, lg, o) ==
    Go("a_reread", [l EXCEPT !.loginSuccess = LoginReturn("claude", o).ret,
                             !.lookupsAtLogin = lookups],
       Append(lg, LoginCall("claude", o)), TRUE, FALSE)

\* lines 164-165 and 189-190: autoLogin(); when it returns true the
\* credentials are read again
ClaudeLogin(l, lg, o) ==
    LET r == LoginReturn("claude", o)
        l1 == [l EXCEPT !.loginSuccess = r.ret, !.lookupsAtLogin = lookups]
        lg1 == Append(lg, LoginCall("claude", o))
    IN IF r.ret THEN Go("a_reread", l1, lg1, TRUE, FALSE)
       ELSE ClaudeAuthEnd(l1, lg1, TRUE)

\* lines 138-142 and 186-189 after readClaudeCredentials() has returned
ClaudeAfterCreds(l, lg, raw, o) ==
    LET creds == ParseClaude(raw)
        lg1 == Append(lg, Call("readCreds", creds.accessToken,
                               IF creds.ok THEN "found" ELSE "none"))
    IN IF creds.ok
       THEN Go("a_profile", [l EXCEPT !.hadCreds = TRUE, !.token = creds.accessToken,
                                      !.refreshToken = creds.refreshToken,
                                      !.planName = PlanName(creds.subscriptionType)],
               lg1, FALSE, FALSE)
       ELSE ClaudeLogin(l, lg1, o)

\* lines 167-169 and 191-193 after readClaudeCredentials(true) has returned
ClaudeAfterReread(l, lg, raw) ==
    LET newCreds == ParseClaude(raw)
        lg1 == Append(lg, Call("readCreds", newCreds.accessToken,
                               IF newCreds.ok THEN "found" ELSE "none"))
    IN IF newCreds.ok
       THEN Go("a_retry", [l EXCEPT !.retryToken = newCreds.accessToken,
                                    !.planName = IF l.hadCreds THEN @
                                                 ELSE PlanName(newCreds.subscriptionType)],
               lg1, FALSE, FALSE)
       ELSE ClaudeAuthEnd(l, lg1, FALSE)

\* fetch() is called and runs to its first await: the keychain read of
\* readClaudeCredentials() (line 138), which returns at once on a cache hit
ClaudeStart(c, o) ==
    /\ prov = "claude" /\ pc = "idle" /\ cycles < MaxCycles
    /\ cycles' = cycles + 1
    /\ GetKeychainPasswordBegin(c, ClaudeKey, ReadTTL(FALSE))
    /\ LET f == IF CacheFresh(cacheFile[ClaudeKey], now, ReadTTL(FALSE))
                THEN ClaudeAfterCreds(Loc0, << >>, cacheFile[ClaudeKey].value, o)
                ELSE Go("a_wait1", [Loc0 EXCEPT !.slot = c], << >>, FALSE, FALSE)
       IN /\ pc' = f.pc /\ loc' = f.l /\ log' = f.log
          /\ result' = f.res
          /\ IF f.login THEN AutoLogin("claude", o) ELSE UNCHANGED loginVars
    /\ UNCHANGED <<prov, manual, missingOauth>>

\* the store lookup of the first read returns
ClaudeCredsRead(failed, o) ==
    /\ prov = "claude" /\ pc = "a_wait1"
    /\ GetKeychainPasswordEnd(loc.slot, failed)
    /\ LET raw == StoreValue(IF failed THEN "" ELSE store[ClaudeKey])
       IN Step(ClaudeAfterCreds(loc, log, raw, o), "claude", o)

\* fetchProfile returns; lines 142-157
ClaudeProfile(out) ==
    /\ prov = "claude" /\ pc = "a_profile"
    /\ Step(Go("a_usage", [loc EXCEPT !.statusLine = ClaudeStatusLine(out, loc.planName)],
               Append(log, Call("fetchProfile", loc.token, out)), FALSE, FALSE),
            "claude", "failed")

\* fetchUsage returns; lines 157-185
ClaudeUsage(out, o) ==
    /\ prov = "claude" /\ pc = "a_usage"
    /\ LET r == FetchUsage(out)
           lg1 == Append(log, Call("fetchUsage", loc.token, out))
           l1 == [loc EXCEPT !.isAuthError = r.isAuthError]
           lu == [l1 EXCEPT !.usage = FormatUsage(out).text]
           le == [l1 EXCEPT !.error = "Failed to fetch usage"]
           f == IF r.data
                THEN IF FormatUsage(out).throws THEN Done(Thrown, l1, lg1, FALSE, FALSE)
                     ELSE Done(ClaudeInfo(lu), lu, lg1, FALSE, FALSE)
                ELSE IF r.isAuthError /\ loc.refreshToken # "" THEN ClaudeLogin(l1, lg1, o)
                ELSE Done(ClaudeInfo(le), le, lg1, FALSE, FALSE)
       IN Step(f, "claude", o)

\* readClaudeCredentials(true) (lines 167, 191) runs to the await of its
\* keychain read
ClaudeReread(c) ==
    /\ prov = "claude" /\ pc = "a_reread"
    /\ GetKeychainPasswordBegin(c, ClaudeKey, ReadTTL(TRUE))
    /\ LET f == IF CacheFresh(cacheFile[ClaudeKey], now, ReadTTL(TRUE))
                THEN ClaudeAfterReread(loc, log, cacheFile[ClaudeKey].value)
                ELSE Go("a_wait2", [loc EXCEPT !.slot = c], log, FALSE, FALSE)
       IN Step(f, "claude", "failed")

\* the store lookup of the forced read returns
ClaudeCredsReread(failed) ==
    /\ prov = "claude" /\ pc = "a_wait2"
    /\ GetKeychainPasswordEnd(loc.slot, failed)
    /\ LET raw == StoreValue(IF failed THEN "" ELSE store[ClaudeKey])
       IN Step(ClaudeAfterReread(loc, log, raw), "claude", "failed")

\* the retried fetchUsage returns; lines 169-173 and 193-197
ClaudeRetry(out) ==
    /\ prov = "claude" /\ pc = "a_retry"
    /\ LET r == FetchUsage(out)
           lg1 == Append(log, Call("fetchUsage", loc.retryToken, out))
           lu == [loc EXCEPT !.usage = FormatUsage(out).text, !.error = ""]
           f == IF ~r.data THEN ClaudeAuthEnd(loc, lg1, FALSE)
                ELSE IF FormatUsage(out).throws THEN Done(Thrown, loc, lg1, FALSE, FALSE)
                ELSE IF loc.hadCreds THEN ClaudeAuthEnd(lu, lg1, FALSE)
                ELSE Go("a_profile2", lu, lg1, FALSE, FALSE)
       IN Step(f, "claude", "failed")

\* the fetchProfile after a retried usage returns; lines 197-210
ClaudeProfile2(out) ==
    /\ prov = "claude" /\ pc = "a_profile2"
    /\ Step(ClaudeAuthEnd([loc EXCEPT !.statusLine = ClaudeStatusLine(out, loc.planName)],
                          Append(log, Call("fetchProfile", loc.retryToken, out)), FALSE),
            "claude", "failed")

(***************************************************************************)
(* openai.ts: OpenAIProvider.fetch                                         *)
(***************************************************************************)
\* getCliStatus('codex') (cli_runner.ts 19-32): null, 'logged in', or
\* 'logged in (<method>)'
CodexOutputs == {"", "loggedIn", "loggedInUsing"}

CodexCliStatus(out) ==
    IF out = "loggedInUsing" THEN <<"logged in (", "ChatGPT", ")">>
    ELSE IF out = "loggedIn" THEN T("logged in") ELSE EmptyText

\* how the usage request can come back: a usage object, a 200 with an object
\* without plan or windows, a 200 with an empty body, a 401, any other failure
OpenAIOutcomes == {"ok", "noFields", "emptyBody", "e401", "err"}

\* fetchOpenAIUsage (66-80): whether it returns something truthy
FetchOpenAIUsage(out) == out \in {"ok", "noFields"}

\* formatOpenAI (82-145)
FormatOpenAI(out) ==
    IF out = "ok" THEN <<"Plan: ChatGPT Plus", "\n", "5h Limit: 40%">> ELSE T("Plan: unknown")

\* lines 171-185
OpenAIInfo(l) ==
    Info(UsageText(OrElse(l.status, T("Codex login not detected")),
                   OrElse(l.usage, manual.usage_text)),
         manual.reset_time, l.error)

\* getCliStatus returns; lines 153-163
OpenAICli(out) ==
    /\ prov = "openai" /\ pc = "o_cli"
    /\ ReadCredentials("openai")
    /\ LET auth == ReadCodexAuth(files)
           l0 == [loc EXCEPT !.status = CodexCliStatus(out)]
           lg1 == Append(log, Call("readCreds", auth.token,
                                   IF auth.token # "" THEN "found" ELSE "none"))
           l1 == [l0 EXCEPT !.hadCreds = TRUE, !.token = auth.token, !.email = auth.email,
                            !.status = IF auth.email # "" THEN LoggedIn(auth.email) ELSE @]
           f == IF auth.token # "" /\ auth.accountId # ""
                THEN Go("o_usage", l1, lg1, FALSE, FALSE)
                ELSE Done(OpenAIInfo(l0), l0, lg1, FALSE, FALSE)
       IN Step(f, "openai", "failed")

\* fetchOpenAIUsage returns; lines 163-168
OpenAIUsage(out) ==
    /\ prov = "openai" /\ pc = "o_usage"
    /\ LET lg1 == Append(log, Call("fetchOpenAIUsage", loc.token, out))
           l1 == IF FetchOpenAIUsage(out) THEN [loc EXCEPT !.usage = FormatOpenAI(out)]
                 ELSE [loc EXCEPT !.error = "Failed to fetch usage"]
       IN Step(Done(OpenAIInfo(l1), l1, lg1, FALSE, FALSE), "openai", "failed")

\* OpenAIProvider.autoLogin (openai.ts 188-192): a log line, and false; no
\* command is run and no variable is written
OpenAIAutoLogin == [ret |-> FALSE, attempted |-> FALSE, launched |-> FALSE]

(***************************************************************************)
(* part_001 (providers/cursor.ts): CursorProvider.fetch                    *)
(***************************************************************************)
CursorKey == "cursor-access-token"

\* getCliStatus('cursor-agent') (cli_runner.ts 42-50)
CursorOutputs == {"", "loggedIn", "loggedInAs"}

CursorCliStatus(out) ==
    IF out = "loggedInAs" THEN <<"logged in (", "user@example.com", ")">>
    ELSE IF out = "loggedIn" THEN T("logged in") ELSE EmptyText

\* the four requests of formatCursor (lines 32-37)
CursorMethods == {"GetFastRequests", "GetPlanInfo", "GetFilteredUsageEvents", "GetHardLimit"}

\* parts.join("\n")
RECURSIVE JoinLines(_)
JoinLines(parts) ==
    IF parts = << >> THEN << >>
    ELSE IF Len(parts) = 1 THEN <<parts[1]>>
    ELSE <<parts[1], "\n">> \o JoinLines(Tail(parts))

\* formatCursor, if one failed request failed the whole fetch
FormatCursorAllOrNothing(oks) ==
    [usage |-> IF oks = {"GetFastRequests", "GetPlanInfo", "GetFilteredUsageEvents", "GetHardLimit"}
               THEN <<"Plan: Pro", "\n", "fast requests: 20%  (100/500)", "\n", "extra: $20">>
               ELSE << >>,
     resetTime |-> << >>,
     error |-> IF oks = {"GetFastRequests", "GetPlanInfo", "GetFilteredUsageEvents", "GetHardLimit"}
               THEN "" ELSE "cursor: failed to get usage"]

\* formatCursor (lines 39-87) when the requests in `oks` returned data (a plan
\* with a billing cycle end, a quota of 500, 100 usage events, a hard limit
\* of 20) and the others returned null
FormatCursor(oks) ==
    LET plan == IF "GetPlanInfo" \in oks THEN <<"Plan: Pro">> ELSE << >>
        quota == IF "GetFastRequests" \in oks THEN 500 ELSE 0
        used == IF "GetFilteredUsageEvents" \in oks THEN 100 ELSE 0
        requests == IF quota > 0
                    THEN IF used > 0 THEN <<"fast requests: 20%  (100/500)">>
                         ELSE <<"fast requests: 0%  (0/500)">>
                    ELSE IF used > 0 THEN <<"used requests: 100">> ELSE << >>
        extra == IF "GetHardLimit" \in oks THEN <<"extra: $20">> ELSE << >>
        parts == plan \o requests \o extra
    IN [usage |-> JoinLines(parts),
        resetTime |-> IF "GetPlanInfo" \in oks THEN T("cycle end: 2026-01-02 +00") ELSE EmptyText,
        error |-> IF parts = << >> THEN "cursor: failed to get usage" ELSE ""]

\* lines 109-126
CursorInfo(l) ==
    Info(UsageText(OrElse(l.status, T("cursor-agent login not detected")),
                   OrElse(l.usage, manual.usage_text)),
         OrElse(l.resetTime, OrElse(manual.reset_time, T("monthly subscription day"))),
         l.error)

\* lines 101-103 after readCursorToken() has returned
CursorAfterToken(l, lg, raw) ==
    IF raw # NULL
    THEN Go("c_api", [l EXCEPT !.hadCreds = TRUE, !.token = raw],
            Append(lg, Call("readCreds", raw, "found")), FALSE, FALSE)
    ELSE Done(CursorInfo(l), l, Append(lg, Call("readCreds", "", "none")), FALSE, FALSE)

\* getCliStatus returns, and readCursorToken() runs to the await of its
\* keychain read; lines 96-101
CursorCli(out, c) ==
    /\ prov = "cursor" /\ pc = "c_cli"
    /\ GetKeychainPasswordBegin(c, CursorKey, DEFAULT_TTL)
    /\ LET l0 == [loc EXCEPT !.status = CursorCliStatus(out)]
           f == IF CacheFresh(cacheFile[CursorKey], now, DEFAULT_TTL)
                THEN CursorAfterToken(l0, log, cacheFile[CursorKey].value)
                ELSE Go("c_wait", [l0 EXCEPT !.slot = c], log, FALSE, FALSE)
       IN Step(f, "cursor", "failed")

\* the store lookup returns
CursorTokenRead(failed) ==
    /\ prov = "cursor" /\ pc = "c_wait"
    /\ GetKeychainPasswordEnd(loc.slot, failed)
    /\ LET raw == StoreValue(IF failed THEN "" ELSE store[CursorKey])
       IN Step(CursorAfterToken(loc, log, raw), "cursor", "failed")

\* the four requests have returned (Promise.all); lines 103-106
CursorApi(oks) ==
    /\ prov = "cursor" /\ pc = "c_api"
    /\ LET r == FormatCursor(oks)
           l1 == [loc EXCEPT !.usage = r.usage, !.resetTime = r.resetTime, !.error = r.error]
           lg1 == Append(log, Call("cursorApi", loc.token,
                                   IF oks = {} THEN "err" ELSE "ok"))
       IN Step(Done(CursorInfo(l1), l1, lg1, FALSE, FALSE), "cursor", "failed")

(***************************************************************************)
(* The environment of a fetch cycle                                        *)
(***************************************************************************)
\* the poll interval as the timer delivers it: on time, or a second late
PollSteps == {60000, 61000}

\* The next poll comes an interval later (setInterval, part_006 line 192).
PollTick(d) == pc = "idle" /\ cycles > 0 /\ cycles < MaxCycles /\ Tick(d)

\* The user's login (a flow that autoLogin launched, or one of their own)
\* rewrites the provider's secret in the OS store.
KeychainLogin(v) ==
    /\ prov \in {"claude", "cursor"}
    /\ pc # "idle" \/ cycles < MaxCycles
    /\ StoreChange(IF prov = "claude" THEN ClaudeKey ELSE CursorKey, v)

\* The companion CLI rewrites its credential file.
FileLogin(content) ==
    /\ prov \in FileProviders
    /\ pc # "idle" \/ cycles < MaxCycles
    /\ CliWrites(prov, content)

(***************************************************************************)
(* part_006 (index.ts): run and updateProvider                             *)
(***************************************************************************)
\* the providers of a poll: the keys selected with --provider (line 170)
RunKeys == {"claude", "gemini", "cursor"}

\* how a provider's fetch() can end: it returns a SubscriptionInfo, it returns
\* one after a step of its chain failed (the info carries an error or a
\* fallback), it returns nothing, it throws
FetchOutcomes == {"returned", "degraded", "nothing", "threw"}

\* cachedResults[key] before any result was stored
NoCached == [present |-> FALSE, run |-> 0, degraded |-> FALSE]

\* the SubscriptionInfo that the fetch() of poll r returned
Fetched(r, out) == [present |-> TRUE, run |-> r, degraded |-> out = "degraded"]

\* the catch drops every stored result
OnThrowDropAll(cache, key) == [k \in RunKeys |-> NoCached]

\* lines 65-68: catch (e) { keep old data }
OnThrow(cache, key) == cache

\* an updateProvider that stores whatever fetch() resolved to
UpdateProviderStoresAny(cache, key, r, out) ==
    IF out = "threw" THEN OnThrow(cache, key)
    ELSE [cache EXCEPT ![key] = Fetched(r, out)]

\* updateProvider, lines 60-68: what becomes of cachedResults when the fetch()
\* of `key` ends
UpdateProviderEnd(cache, key, r, out) ==
    IF out = "threw" THEN OnThrow(cache, key)
    ELSE IF out = "nothing" THEN cache
    ELSE [cache EXCEPT ![key] = Fetched(r, out)]

\* lines 61-64: if (result) { cachedResults[key] = result; render(); }
Renders(out) == out \notin {"threw", "nothing"}

NoSettle == [called |-> FALSE, run |-> 0, key |-> "", out |-> "", rendered |-> FALSE]

\* run(), lines 166-181: the poll r starts; updateProvider is called for every
\* key and each runs to the await of its fetch().  The first poll is awaited
\* before the timer is set (lines 185-195); later polls start on the timer,
\* whether or not the one before has finished.
Run(r) ==
    /\ r = polls + 1 /\ r <= MaxPolls
    /\ r > 1 => ~pending[1]
    /\ polls' = r
    /\ task' = [task EXCEPT ![r] = [k \in RunKeys |-> "fetching"]]
    /\ pending' = [pending EXCEPT ![r] = TRUE]
    /\ UNCHANGED <<cachedResults, lastSettle>>

\* updateProvider, lines 60-68: the fetch() of `key` in poll r ends
UpdateProvider(r, key, out) ==
    /\ task[r][key] = "fetching"
    /\ cachedResults' = UpdateProviderEnd(cachedResults, key, r, out)
    /\ task' = [task EXCEPT ![r][key] = "settled"]
    /\ lastSettle' = [called |-> TRUE, run |-> r, key |-> key, out |-> out,
                      rendered |-> Renders(out)]
    /\ UNCHANGED <<polls, pending>>

\* line 181: Promise.all resolves when every updateProvider of the poll has
\* returned (none of them rejects)
RunEnd(r) ==
    /\ pending[r]
    /\ \A k \in RunKeys : task[r][k] = "settled"
    /\ pending' = [pending EXCEPT ![r] = FALSE]
    /\ UNCHANGED <<cachedResults, task, polls, lastSettle>>

\* lines 192-194: the timer calls run() and does not await it; the poll r
\* starts whether or not the polls before it have finished
RunOnTimer(r) ==
    /\ r = polls + 1 /\ r <= MaxPolls
    /\ polls' = r
    /\ task' = [task EXCEPT ![r] = [k \in RunKeys |-> "fetching"]]
    /\ pending' = [pending EXCEPT ![r] = TRUE]
    /\ UNCHANGED <<cachedResults, lastSettle>>

(***************************************************************************)
(* Strings, character by character: SubSeq(s, i, i) is the i-th character  *)
(* of the string s.                                                        *)
(***************************************************************************)
CharAt(s, i) == SubSeq(s, i, i)

\* the rest of s from its i-th character on
From(s, i) == SubSeq(s, i, Len(s))

\* The characters of the model's strings in the order of their code units:
\* ASCII without the grave accent, which a string of this module cannot
\* hold.
CodeUnits == "\t\n\f\r !\"#$%&'()*+,-./0123456789:;<=>?@ABCDEFGHIJKLMNOPQRSTUVWXYZ[\\]^_abcdefghijklmnopqrstuvwxyz{|}~"

Code(c) == CHOOSE i \in 1..Len(CodeUnits) : CharAt(CodeUnits, i) = c

\* String.prototype.toLowerCase()
RECURSIVE ToLowerCase(_)
ToLowerCase(s) ==
    IF Len(s) = 0 THEN ""
    ELSE LET c == CharAt(s, 1)
             up == "ABCDEFGHIJKLMNOPQRSTUVWXYZ"
             low == "abcdefghijklmnopqrstuvwxyz"
             at == {i \in 1..26 : CharAt(up, i) = c}
         IN (IF at = {} THEN c ELSE CharAt(low, CHOOSE i \in at : TRUE))
            \o ToLowerCase(From(s, 2))

\* a.localeCompare(b) in the default locale: the collation of ICU for the
\* root locale (which "en" uses), at its default strength.  The strings are
\* compared by the primary weights of their characters first: white space,
\* then punctuation, symbols, the currency sign, digits, and letters without
\* regard to their case; the first difference decides and a proper prefix
\* is smaller.  Strings that agree there differ in case only, and at the
\* first difference the lower-case letter is the smaller.  The result is
\* -1, 0 or 1.
LocaleCompare(a, b) ==
    LET order == "\t\n\f\r _-,;:!?.'\"()[]{}@*/\\&#%^+<=>|~$0123456789abcdefghijklmnopqrstuvwxyz"
        primary(c) == CHOOSE i \in 1..Len(order) : CharAt(order, i) = c
        la == ToLowerCase(a)
        lb == ToLowerCase(b)
        shorter == IF Len(a) < Len(b) THEN Len(a) ELSE Len(b)
        diff == {i \in 1..shorter : CharAt(la, i) # CharAt(lb, i)}
        d == CHOOSE i \in diff : \A o \in diff : i <= o
        cased == {i \in 1..shorter : CharAt(a, i) # CharAt(b, i)}
        c == CHOOSE i \in cased : \A o \in cased : i <= o
    IN IF diff # {}
       THEN IF primary(CharAt(la, d)) < primary(CharAt(lb, d)) THEN -1 ELSE 1
       ELSE IF Len(a) < Len(b) THEN -1
       ELSE IF Len(a) > Len(b) THEN 1
       ELSE IF cased = {} THEN 0
       ELSE IF CharAt(a, c) = CharAt(la, c) THEN -1 ELSE 1

\* a < b for two strings: the first code unit that differs decides, and a
\* proper prefix is smaller
RECURSIVE StrLess(_, _)
StrLess(a, b) ==
    IF Len(b) = 0 THEN FALSE
    ELSE IF Len(a) = 0 THEN TRUE
    ELSE IF CharAt(a, 1) = CharAt(b, 1) THEN StrLess(From(a, 2), From(b, 2))
    ELSE Code(CharAt(a, 1)) < Code(CharAt(b, 1))

\* String.prototype.includes(p)
Includes(s, p) == \E i \in 1..(Len(s) - Len(p) + 1) : SubSeq(s, i, i + Len(p) - 1) = p

\* String.prototype.trim()
RECURSIVE TrimStr(_)
TrimStr(s) ==
    IF Len(s) = 0 THEN ""
    ELSE IF CharAt(s, 1) \in Whitespace THEN TrimStr(From(s, 2))
    ELSE IF CharAt(s, Len(s)) \in Whitespace THEN TrimStr(SubSeq(s, 1, Len(s) - 1))
    ELSE s

\* String.prototype.substring(0, n)
Substring0(s, n) == SubSeq(s, 1, IF Len(s) < n THEN Len(s) ELSE n)

\* n.toString() and n.toFixed(0) of an integer
RECURSIVE Dec(_)
Dec(n) ==
    IF n < 0 THEN "-" \o Dec(-n)
    ELSE IF n < 10 THEN CharAt("0123456789", n + 1)
    ELSE Dec(n \div 10) \o CharAt("0123456789", (n % 10) + 1)

\* String.prototype.repeat(n)
RECURSIVE Repeat(_, _)
Repeat(s, n) == IF n <= 0 THEN "" ELSE s \o Repeat(s, n - 1)

\* n.toString().padStart(2, '0')
Pad2(n) == IF n < 10 THEN "0" \o Dec(n) ELSE Dec(n)

\* parts.join("\n") of a sequence of strings
RECURSIVE JoinStr(_)
JoinStr(parts) ==
    IF parts = << >> THEN ""
    ELSE IF Len(parts) = 1 THEN parts[1]
    ELSE parts[1] \o "\n" \o JoinStr(Tail(parts))

(***************************************************************************)
(* part_004 (utils.ts): execCommand, and cli_runner.ts: getCliStatus       *)
(***************************************************************************)
\* What exec() does with a command: it exits 0 ("ok"), exits with another
\* code ("exit"), is killed at the timeout ("timeout"), or the shell does
\* not find the binary ("missing"); stdout and stderr are what it has
\* printed until then, `message` is the message of the error exec() rejects
\* with.
ExecKinds == {"ok", "exit", "timeout", "missing"}

\* execCommand, lines 8-21
ExecCommand(run) ==
    IF run.kind = "ok" \/ run.stdout # "" \/ run.stderr # ""
    THEN [stdout |-> TrimStr(run.stdout), stderr |-> TrimStr(run.stderr)]
    ELSE [stdout |-> "", stderr |-> run.message]

\* commandExists, cli_runner.ts 4-11
CommandExists(run) == ExecCommand(run).stdout # ""

\* stripAnsi, cli_runner.ts 13-16: every ESC [ <digits and semicolons> m is
\* removed.  The escape character U+001B is written in caret notation, "^[".
RECURSIVE StripAnsi(_)
StripAnsi(s) ==
    IF Len(s) = 0 THEN ""
    ELSE IF Len(s) >= 3 /\ SubSeq(s, 1, 3) = "^[["
    THEN LET params == {k \in 0..(Len(s) - 3) :
                           \A j \in 4..(3 + k) : CharAt(s, j) \in
                               {"0", "1", "2", "3", "4", "5", "6", "7", "8", "9", ";"}}
             k == CHOOSE n \in params : \A o \in params : o <= n
         IN IF 4 + k <= Len(s) /\ CharAt(s, 4 + k) = "m"
            THEN StripAnsi(From(s, 5 + k))
            ELSE "^[" \o StripAnsi(From(s, 3))
    ELSE CharAt(s, 1) \o StripAnsi(From(s, 2))

\* clean.match(/<phrase>\s+(.+)/i) and, with toLineEnd,
\* clean.match(/<phrase>\s+(.+?)(\n|$)/i).  `.` takes every character but
\* the line feed and the carriage return.  The match is at the leftmost
\* occurrence of the phrase (in any case) that has one: \s+ takes as much
\* white space as it can, so that a character which `.` takes follows, and
\* the group is the run of such characters from there; with toLineEnd the
\* run has to end at a line feed or at the end of the text.  `phrase` is in
\* lower case.
MatchLogin(clean, phrase, toLineEnd) ==
    LET n == Len(phrase)
        dot(k) == CharAt(clean, k) \notin {"\n", "\r"}
        runEnd(j) == CHOOSE e \in j..Len(clean) :
                        /\ \A k \in j..e : dot(k)
                        /\ e = Len(clean) \/ ~dot(e + 1)
        closes(e) == ~toLineEnd \/ e = Len(clean) \/ CharAt(clean, e + 1) = "\n"
        caps(i) == {j \in (i + n + 1)..Len(clean) :
                       /\ \A k \in (i + n)..(j - 1) : CharAt(clean, k) \in Whitespace
                       /\ dot(j)
                       /\ closes(runEnd(j))}
        starts == {i \in 1..(Len(clean) - n + 1) :
                      /\ ToLowerCase(SubSeq(clean, i, i + n - 1)) = phrase
                      /\ caps(i) # {}}
        i0 == CHOOSE i \in starts : \A o \in starts : i <= o
        group(js) == LET j0 == CHOOSE j \in js : \A o \in js : o <= j
                     IN SubSeq(clean, j0, runEnd(j0))
    IN IF starts = {} THEN [found |-> FALSE, who |-> ""]
       ELSE [found |-> TRUE, who |-> group(caps(i0))]

\* getCliStatus, cli_runner.ts 18-57, when the command it runs ends as `run`
\* does (for 'claude' and for an unknown name no command is run)
GetCliStatus(cliName, run) ==
    LET r == ExecCommand(run)
    IN IF cliName = "codex"
       THEN LET output == IF r.stdout # "" THEN r.stdout ELSE r.stderr
                clean == StripAnsi(output)
                m == MatchLogin(clean, "logged in using", FALSE)
            IN IF output = "" THEN NULL
               ELSE IF m.found THEN "logged in (" \o TrimStr(m.who) \o ")"
               ELSE IF Includes(ToLowerCase(clean), "logged in") THEN "logged in"
               ELSE NULL
       ELSE IF cliName = "gemini"
       THEN IF CommandExists(run) THEN "gemini installed" ELSE NULL
       ELSE IF cliName = "cursor-agent"
       THEN LET clean == StripAnsi(r.stdout)
                m == MatchLogin(clean, "logged in as", TRUE)
            IN IF r.stdout = "" THEN NULL
               ELSE IF m.found THEN "logged in (" \o TrimStr(m.who) \o ")"
               ELSE IF Includes(ToLowerCase(clean), "logged in") THEN "logged in"
               ELSE NULL
       ELSE NULL

(***************************************************************************)
(* Reset times: new Date(s) and the local fields of the date               *)
(***************************************************************************)
\* new Date(s) for a string s (anthropic.ts 98, gemini.ts 155) is the date
\* that the engine's parser of date strings gives: it reads the string as an
\* ISO 8601 date-time, and what is left of it in the older, lenient format
\* (numbers, month names, am/pm, zone names, offsets); a string that is
\* neither gives an invalid date, whose fields are all NaN.  The process
\* runs in UTC, so a time without a zone is a time in UTC and
\* getTimezoneOffset() is 0.
IsDigit(c) == c \in {"0", "1", "2", "3", "4", "5", "6", "7", "8", "9"}

DigitValue(c) == CHOOSE n \in 0..9 : CharAt("0123456789", n + 1) = c

\* the number that a string of at most nine digits writes
RECURSIVE ReadUnsignedNumeral(_)
ReadUnsignedNumeral(digits) ==
    IF Len(digits) = 0 THEN 0
    ELSE 10 * ReadUnsignedNumeral(SubSeq(digits, 1, Len(digits) - 1))
         + DigitValue(CharAt(digits, Len(digits)))

\* A token of a date string: a number (its value n and the count len of its
\* digits), one of the symbols : - + . ) (c), a word (its kind ty, its value
\* n and its length len), a white space character, anything else, and the
\* end of the string.
Token(k, n, len, c, ty) == [k |-> k, n |-> n, len |-> len, c |-> c, ty |-> ty]

EndOfInput == Token("end", 0, 0, "", "")

\* a slot of a composer that no number has been written to
NONE == -1

\* The words the parser knows, by the first three letters in lower case: a
\* word longer than three letters is known only as the name of a month.
Keyword(word) ==
    LET pre == ToLowerCase(SubSeq(word, 1, IF Len(word) < 3 THEN Len(word) ELSE 3))
        months == <<"jan", "feb", "mar", "apr", "may", "jun",
                    "jul", "aug", "sep", "oct", "nov", "dec">>
        zones == [ut |-> 0, utc |-> 0, z |-> 0, gmt |-> 0, cdt |-> -5, cst |-> -6,
                  edt |-> -4, est |-> -5, mdt |-> -6, mst |-> -7, pdt |-> -7, pst |-> -8]
    IN IF \E m \in 1..12 : months[m] = pre
       THEN Token("word", CHOOSE m \in 1..12 : months[m] = pre, Len(word), "", "MONTH_NAME")
       ELSE IF Len(word) > 3 THEN Token("word", 0, Len(word), "", "INVALID")
       ELSE IF pre = "am" THEN Token("word", 0, Len(word), "", "AM_PM")
       ELSE IF pre = "pm" THEN Token("word", 12, Len(word), "", "AM_PM")
       ELSE IF pre \in DOMAIN zones THEN Token("word", zones[pre], Len(word), "", "TIME_ZONE_NAME")
       ELSE IF pre = "t" THEN Token("word", 0, Len(word), "", "TIME_SEPARATOR")
       ELSE Token("word", 0, Len(word), "", "INVALID")

\* The tokens of a date string, in turn.  A number is a run of digits, and
\* its value is that of its first nine digits after the leading zeros; a
\* word is a run of characters from 'A' on; a parenthesis is skipped with
\* all that it encloses.
RECURSIVE Tokenize(_)
Tokenize(s) ==
    IF Len(s) = 0 THEN << >>
    ELSE LET c == CharAt(s, 1)
             run(S) == CHOOSE n \in 0..Len(s) :
                          /\ \A i \in 1..n : CharAt(s, i) \in S
                          /\ n = Len(s) \/ CharAt(s, n + 1) \notin S
             digitChars == {CharAt("0123456789", i) : i \in 1..10}
             wordChars == {CharAt(CodeUnits, i) : i \in Code("A")..Len(CodeUnits)}
             nd == run(digitChars)
             zeros == run({"0"})
             significant == SubSeq(s, zeros + 1, IF nd - zeros > 9 THEN zeros + 9 ELSE nd)
             nw == run(wordChars)
             balance(n) == Cardinality({i \in 1..n : CharAt(s, i) = "("})
                           - Cardinality({i \in 1..n : CharAt(s, i) = ")"})
             closed == {n \in 1..Len(s) : balance(n) = 0}
             np == IF closed = {} THEN Len(s)
                   ELSE CHOOSE n \in closed : \A o \in closed : n <= o
         IN IF IsDigit(c)
            THEN <<Token("number", ReadUnsignedNumeral(significant), nd, "", "")>>
                 \o Tokenize(From(s, nd + 1))
            ELSE IF c \in {":", "-", "+", ".", ")"}
            THEN <<Token("symbol", 0, 1, c, "")>> \o Tokenize(From(s, 2))
            ELSE IF c \in wordChars
            THEN <<Keyword(SubSeq(s, 1, nw))>> \o Tokenize(From(s, nw + 1))
            ELSE IF c \in {" ", "\t", "\n", "\f", "\r"}
            THEN <<Token("space", 0, 1, "", "")>> \o Tokenize(From(s, 2))
            ELSE IF c = "("
            THEN <<Token("unknown", 0, np, "", "")>> \o Tokenize(From(s, np + 1))
            ELSE <<Token("unknown", 0, 1, "", "")>> \o Tokenize(From(s, 2))

Peek(tokens, i) == IF i <= Len(tokens) THEN tokens[i] ELSE EndOfInput

IsSymbol(t, c) == t.k = "symbol" /\ t.c = c

IsAsciiSign(t) == IsSymbol(t, "+") \/ IsSymbol(t, "-")

IsFixedNumber(t, len) == t.k = "number" /\ t.len = len

IsKeywordZ(t) == t.k = "word" /\ t.ty = "TIME_ZONE_NAME" /\ t.len = 1

\* the three most significant digits of a fraction of a second
ReadMilliseconds(t) ==
    IF t.len = 1 THEN t.n * 100
    ELSE IF t.len = 2 THEN t.n * 10
    ELSE IF t.len = 3 THEN t.n
    ELSE LET len == IF t.len > 9 THEN 9 ELSE t.len
             factor == [l \in 4..9 |-> CASE l = 4 -> 10 [] l = 5 -> 100 [] l = 6 -> 1000
                                          [] l = 7 -> 10000 [] l = 8 -> 100000
                                          [] OTHER -> 1000000]
         IN t.n \div factor[len]

\* What the parser has gathered: the numbers of the day (at most three), the
\* month given by name, the numbers of the time (at most four), the 0 or 12
\* hours of am/pm, and the sign (0 when there is none), hours and minutes of
\* the zone; whether the
\* whole string was an ISO 8601 date-time, and whether a number has been
\* read.  `ok` is false when the string has been found to be no date.
Composers ==
    [ok |-> TRUE, day |-> << >>, named |-> NONE, time |-> << >>, hourOffset |-> NONE,
     tzSign |-> 0, tzHour |-> NONE, tzMinute |-> NONE, iso |-> FALSE, next |-> 1]

\* the time composer takes n as its next number
TimeIsExpecting(time, n) ==
    \/ Len(time) = 1 /\ n \in 0..59
    \/ Len(time) = 2 /\ n \in 0..59
    \/ Len(time) = 3 /\ n \in 0..999

\* the time composer with n as its last number: the slots after it are 0
TimeAddFinal(time, n) ==
    IF Len(time) >= 4 THEN time
    ELSE time \o <<n>> \o [i \in 1..(3 - Len(time)) |-> 0]

\* the zone composer set to a whole number of hours
TzSet(st, hours) ==
    [st EXCEPT !.tzSign = IF hours < 0 THEN -1 ELSE 1,
               !.tzHour = IF hours < 0 THEN -hours ELSE hours,
               !.tzMinute = 0]

\* The string read as an ISO 8601 date-time,
\*   [+-yy]yyyy[-MM[-DD]][THH:mm[:ss[.sss]][Z|+-hh:mm|+-hhmm]]:
\* `next` is 0 when all of it was one, and else the token from which the
\* lenient format goes on with what has been gathered; after a 'T' the
\* string is a date-time or no date at all.
ParseES5DateTime(tokens) ==
    LET P(i) == Peek(tokens, i)
        Invalid == [Composers EXCEPT !.ok = FALSE]
        legacy(st, i) == [st EXCEPT !.next = i]
        done(st) ==
            LET z == IF st.tzHour = NONE /\ st.time = << >> THEN TzSet(st, 0) ELSE st
            IN [z EXCEPT !.iso = TRUE, !.next = 0]
        \* the zone, from token i on
        zone(st, i) ==
            IF IsKeywordZ(P(i))
            THEN IF P(i + 1).k = "end" THEN done(TzSet(st, 0)) ELSE Invalid
            ELSE IF IsAsciiSign(P(i))
            THEN LET sign == IF P(i).c = "+" THEN 1 ELSE -1
                     t == P(i + 1)
                 IN IF IsFixedNumber(t, 4)
                    THEN IF (t.n \div 100) \in 0..23 /\ (t.n % 100) \in 0..59
                            /\ P(i + 2).k = "end"
                         THEN done([st EXCEPT !.tzSign = sign, !.tzHour = t.n \div 100,
                                              !.tzMinute = t.n % 100])
                         ELSE Invalid
                    ELSE IF /\ IsFixedNumber(t, 2) /\ t.n \in 0..23
                            /\ IsSymbol(P(i + 2), ":")
                            /\ IsFixedNumber(P(i + 3), 2) /\ P(i + 3).n \in 0..59
                            /\ P(i + 4).k = "end"
                    THEN done([st EXCEPT !.tzSign = sign, !.tzHour = t.n,
                                         !.tzMinute = P(i + 3).n])
                    ELSE Invalid
            ELSE IF P(i).k = "end" THEN done(st) ELSE Invalid
        \* the time, from the token i after the 'T' on
        time(st, i) ==
            LET hh == P(i)
                mm == P(i + 2)
                ss == P(i + 4)
                frac == P(i + 6)
                is24 == hh.n = 24
            IN IF ~(IsFixedNumber(hh, 2) /\ hh.n \in 0..24) THEN Invalid
               ELSE IF ~IsSymbol(P(i + 1), ":") THEN Invalid
               ELSE IF ~(IsFixedNumber(mm, 2) /\ mm.n \in 0..59 /\ ~(is24 /\ mm.n > 0))
               THEN Invalid
               ELSE IF ~IsSymbol(P(i + 3), ":")
               THEN zone([st EXCEPT !.time = <<hh.n, mm.n>>], i + 3)
               ELSE IF ~(IsFixedNumber(ss, 2) /\ ss.n \in 0..59 /\ ~(is24 /\ ss.n > 0))
               THEN Invalid
               ELSE IF ~IsSymbol(P(i + 5), ".")
               THEN zone([st EXCEPT !.time = <<hh.n, mm.n, ss.n>>], i + 5)
               ELSE IF ~(frac.k = "number" /\ ~(is24 /\ frac.n > 0)) THEN Invalid
               ELSE zone([st EXCEPT !.time = <<hh.n, mm.n, ss.n, ReadMilliseconds(frac)>>],
                         i + 7)
        \* after the date: a 'T' and the time, or the end
        afterDate(st, i) ==
            IF P(i).k = "word" /\ P(i).ty = "TIME_SEPARATOR" THEN time(st, i + 1)
            ELSE IF P(i).k = "end" THEN done(st)
            ELSE legacy(st, i)
        \* the month and the day, from token i on
        monthDay(st, i) ==
            IF ~IsSymbol(P(i), "-") THEN afterDate(st, i)
            ELSE IF ~(IsFixedNumber(P(i + 1), 2) /\ P(i + 1).n \in 1..12)
            THEN legacy(st, i + 1)
            ELSE LET st2 == [st EXCEPT !.day = @ \o <<P(i + 1).n>>]
                 IN IF ~IsSymbol(P(i + 2), "-") THEN afterDate(st2, i + 2)
                    ELSE IF ~(IsFixedNumber(P(i + 3), 2) /\ P(i + 3).n \in 1..31)
                    THEN legacy(st2, i + 3)
                    ELSE afterDate([st2 EXCEPT !.day = @ \o <<P(i + 3).n>>], i + 4)
    IN IF IsAsciiSign(P(1))
       THEN IF ~IsFixedNumber(P(2), 6) THEN legacy(Composers, 1)
            ELSE IF P(1).c = "-" /\ P(2).n = 0 THEN legacy(Composers, 3)
            ELSE monthDay([Composers EXCEPT
                              !.day = <<IF P(1).c = "-" THEN -P(2).n ELSE P(2).n>>], 3)
       ELSE IF IsFixedNumber(P(1), 4)
       THEN monthDay([Composers EXCEPT !.day = <<P(1).n>>], 2)
       ELSE legacy(Composers, 1)

\* The lenient format, token by token from st.next on.  A number before ':'
\* is of the time, as is one before '.' or after the time's first when it
\* fits; a number from 0 to 59 after the hours of an offset is its minutes; any other
\* number is of the day.  A word that is no keyword, a sign and a ')' are
\* allowed only before the first number.
RECURSIVE LegacyParse(_, _, _)
LegacyParse(tokens, st, hasNumber) ==
    LET i == st.next
        t == Peek(tokens, i)
        P(j) == Peek(tokens, j)
        Invalid == [st EXCEPT !.ok = FALSE]
        tzExpects(n) == st.tzHour # NONE /\ st.tzMinute = NONE /\ n \in 0..59
    IN IF t.k = "end" THEN st
       ELSE IF t.k = "number"
       THEN LET n == t.n
                dot == IsSymbol(P(i + 1), ".")
                j == IF dot THEN i + 2 ELSE i + 1
            IN IF IsSymbol(P(i + 1), ":")
               THEN IF IsSymbol(P(i + 2), ":")
                    THEN IF st.time # << >> THEN Invalid
                         ELSE LegacyParse(tokens, [st EXCEPT !.time = <<n, 0>>,
                                                             !.next = i + 3], TRUE)
                    ELSE IF Len(st.time) >= 4 THEN Invalid
                    ELSE LegacyParse(tokens,
                                     [st EXCEPT !.time = @ \o <<n>>,
                                                !.next = IF IsSymbol(P(i + 2), ".")
                                                         THEN i + 3 ELSE i + 2],
                                     TRUE)
               ELSE IF dot /\ TimeIsExpecting(st.time, n)
               THEN IF P(j).k # "number" THEN Invalid
                    ELSE LegacyParse(tokens,
                                     [st EXCEPT !.time = TimeAddFinal(st.time \o <<n>>,
                                                                      ReadMilliseconds(P(j))),
                                                !.next = j + 1],
                                     TRUE)
               ELSE IF tzExpects(n)
               THEN LegacyParse(tokens, [st EXCEPT !.tzMinute = n, !.next = j], TRUE)
               ELSE IF TimeIsExpecting(st.time, n)
               THEN IF P(j).k \notin {"end", "space"} /\ ~IsKeywordZ(P(j)) /\ ~IsAsciiSign(P(j))
                    THEN Invalid
                    ELSE LegacyParse(tokens, [st EXCEPT !.time = TimeAddFinal(st.time, n),
                                                        !.next = j], TRUE)
               ELSE IF Len(st.day) >= 3 THEN Invalid
               ELSE LegacyParse(tokens,
                                [st EXCEPT !.day = @ \o <<n>>,
                                           !.next = IF IsSymbol(P(j), "-") THEN j + 1 ELSE j],
                                TRUE)
       ELSE IF t.k = "word"
       THEN IF t.ty = "AM_PM" /\ st.time # << >>
            THEN LegacyParse(tokens, [st EXCEPT !.hourOffset = t.n, !.next = i + 1], hasNumber)
            ELSE IF t.ty = "MONTH_NAME"
            THEN LegacyParse(tokens,
                             [st EXCEPT !.named = t.n,
                                        !.next = IF IsSymbol(P(i + 1), "-") THEN i + 2 ELSE i + 1],
                             hasNumber)
            ELSE IF t.ty = "TIME_ZONE_NAME" /\ hasNumber
            THEN LegacyParse(tokens, [TzSet(st, t.n) EXCEPT !.next = i + 1], hasNumber)
            ELSE IF hasNumber \/ P(i + 1).k = "number" THEN Invalid
            ELSE LegacyParse(tokens, [st EXCEPT !.next = i + 1], hasNumber)
       ELSE IF IsAsciiSign(t) /\ ((st.tzHour = 0 /\ st.tzMinute = 0) \/ st.time # << >>)
       THEN LET sign == IF t.c = "+" THEN 1 ELSE -1
                num == P(i + 1).k = "number"
                n == IF num THEN P(i + 1).n ELSE 0
                len == IF num THEN P(i + 1).len ELSE 0
                j == IF num THEN i + 2 ELSE i + 1
            IN IF IsSymbol(P(j), ":")
               THEN LegacyParse(tokens, [st EXCEPT !.tzSign = sign, !.tzHour = n,
                                                   !.tzMinute = NONE, !.next = j], TRUE)
               ELSE IF len \in {1, 2}
               THEN LegacyParse(tokens, [st EXCEPT !.tzSign = sign, !.tzHour = n,
                                                   !.tzMinute = 0, !.next = j], TRUE)
               ELSE IF len \in {3, 4}
               THEN LegacyParse(tokens, [st EXCEPT !.tzSign = sign, !.tzHour = n \div 100,
                                                   !.tzMinute = n % 100, !.next = j], TRUE)
               ELSE Invalid
       ELSE IF (IsAsciiSign(t) \/ IsSymbol(t, ")")) /\ hasNumber THEN Invalid
       ELSE LegacyParse(tokens, [st EXCEPT !.next = i + 1], hasNumber)

\* The year, month and day of what has been gathered: the slots left open
\* are 1; without a named month the numbers are year-month-day when the
\* string was ISO 8601 or the first is no day of a month, and else
\* month-day-year; a year below 50 is of this century and one below 100 of
\* the last.  A month outside 1..12 or a day outside 1..31 is no date.
DayWrite(st) ==
    LET comp == st.day \o [i \in 1..(3 - Len(st.day)) |-> 1]
        isDay(x) == x \in 1..31
        ymd == IF st.named = NONE
               THEN IF st.iso \/ ~isDay(comp[1])
                    THEN [year |-> comp[1], month |-> comp[2], day |-> comp[3]]
                    ELSE [year |-> comp[3], month |-> comp[1], day |-> comp[2]]
               ELSE IF ~isDay(comp[1])
                    THEN [year |-> comp[1], month |-> st.named, day |-> comp[2]]
                    ELSE [year |-> comp[2], month |-> st.named, day |-> comp[1]]
        year == IF st.iso THEN ymd.year
                ELSE IF ymd.year \in 0..49 THEN ymd.year + 2000
                ELSE IF ymd.year \in 50..99 THEN ymd.year + 1900
                ELSE ymd.year
    IN IF Len(st.day) < 1 \/ ymd.month \notin 1..12 \/ ~isDay(ymd.day)
       THEN [ok |-> FALSE, year |-> 0, month |-> 0, day |-> 0]
       ELSE [ok |-> TRUE, year |-> year, month |-> ymd.month, day |-> ymd.day]

\* The hour, minute, second and millisecond of what has been gathered: the
\* slots left open are 0; with am/pm the hour is one of 0..12, taken modulo
\* 12, plus 0 or 12; the hour 24 is allowed at 24:00:00.000 only.
TimeWrite(st) ==
    LET comp == st.time \o [i \in 1..(4 - Len(st.time)) |-> 0]
        hour == IF st.hourOffset # NONE THEN (comp[1] % 12) + st.hourOffset ELSE comp[1]
        fits == hour \in 0..23 /\ comp[2] \in 0..59 /\ comp[3] \in 0..59 /\ comp[4] \in 0..999
    IN IF st.hourOffset # NONE /\ comp[1] \notin 0..12
       THEN [ok |-> FALSE, hour |-> 0, minute |-> 0, second |-> 0, ms |-> 0]
       ELSE IF ~fits /\ ~(hour = 24 /\ comp[2] = 0 /\ comp[3] = 0 /\ comp[4] = 0)
       THEN [ok |-> FALSE, hour |-> 0, minute |-> 0, second |-> 0, ms |-> 0]
       ELSE [ok |-> TRUE, hour |-> hour, minute |-> comp[2], second |-> comp[3],
             ms |-> comp[4]]

\* The offset of the zone from UTC in seconds; without a zone the time is
\* local, which is UTC here.  hour * 3600 + minute * 60 is computed in 32
\* bits (here by halves of 16 bits, `high` and `low`), and a sum that, read
\* without a sign, is more than 2^31 - 1 is no date.
TzWrite(st) ==
    LET hour == IF st.tzHour = NONE THEN 0 ELSE st.tzHour
        minute == IF st.tzMinute = NONE THEN 0 ELSE st.tzMinute
        lowSum == (hour % 65536) * 3600 + (minute % 65536) * 60
        highSum == (hour \div 65536) * 3600 + (minute \div 65536) * 60 + (lowSum \div 65536)
        high == highSum % 65536
        low == lowSum % 65536
    IN IF st.tzSign = 0 THEN [ok |-> TRUE, seconds |-> 0]
       ELSE IF high >= 32768 THEN [ok |-> FALSE, seconds |-> 0]
       ELSE [ok |-> TRUE, seconds |-> st.tzSign * (high * 65536 + low)]

\* the number of the day (year, month, 1) counted from 1970-01-01, in the
\* proleptic Gregorian calendar
DaysFromCivil(year, month) ==
    LET y == IF month <= 2 THEN year - 1 ELSE year
        era == y \div 400
        yoe == y - era * 400
        mp == (month + 9) % 12
        doy == (153 * mp + 2) \div 5
        doe == yoe * 365 + (yoe \div 4) - (yoe \div 100) + doy
    IN era * 146097 + doe - 719468

\* the month and the day of the month of the day that has the number `days`
CivilFromDays(days) ==
    LET z == days + 719468
        era == z \div 146097
        doe == z - era * 146097
        yoe == (doe - (doe \div 1460) + (doe \div 36524) - (doe \div 146096)) \div 365
        doy == doe - (365 * yoe + (yoe \div 4) - (yoe \div 100))
        mp == (5 * doy + 2) \div 153
    IN [month |-> IF mp < 10 THEN mp + 3 ELSE mp - 9,
        date |-> doy - ((153 * mp + 2) \div 5) + 1]

InvalidDate == [valid |-> FALSE, month |-> 0, date |-> 0, hours |-> 0, minutes |-> 0]

\* new Date(s), and getMonth() + 1, getDate(), getHours() and getMinutes()
\* of it.  A day of the month up to 31 and the hour 24 roll over into the
\* next month and day; the zone's offset (whole days of it and the seconds
\* left) is taken off; and a time more than 100,000,000 days from
\* 1970-01-01 is no date.
ParseDate(s) ==
    LET write(st, day, time, tz) ==
            LET seconds == time.hour * 3600 + time.minute * 60 + time.second
                           - (tz.seconds % 86400)
                days == DaysFromCivil(day.year, day.month) + day.day - 1
                        - (tz.seconds \div 86400) + (seconds \div 86400)
                inRange == \/ days \in -100000000..99999999
                           \/ days = 100000000 /\ seconds % 86400 = 0 /\ time.ms = 0
                civil(d) == [valid |-> TRUE, month |-> d.month, date |-> d.date,
                             hours |-> (seconds % 86400) \div 3600,
                             minutes |-> (seconds % 3600) \div 60]
            IN IF ~st.ok \/ ~day.ok \/ ~time.ok \/ ~tz.ok THEN InvalidDate
               ELSE IF day.year \notin -300000..300000 THEN InvalidDate
               ELSE IF ~inRange THEN InvalidDate
               ELSE civil(CivilFromDays(days))
        compose(st) == write(st, DayWrite(st), TimeWrite(st), TzWrite(st))
        lenient(tokens, es5) ==
            compose(IF ~es5.ok \/ es5.next = 0 THEN es5
                    ELSE LegacyParse(tokens, es5, es5.day # << >>))
        parse(tokens) == lenient(tokens, ParseES5DateTime(tokens))
    IN parse(Tokenize(s))

\* `${m}-${d} ${h}:${min}` of anthropic.ts 100-108 and gemini.ts 156-164; a
\* field of an invalid date is NaN, and NaN.toString().padStart(2, '0') is
\* "NaN"
MonthDayTime(dt) ==
    IF dt.valid
    THEN Pad2(dt.month) \o "-" \o Pad2(dt.date) \o " " \o Pad2(dt.hours) \o ":" \o Pad2(dt.minutes)
    ELSE "NaN-NaN NaN:NaN"

\* `${sign}${Math.abs(offset).toString().padStart(2, '0')}` of anthropic.ts
\* 114-116 and gemini.ts 160-162; NaN >= 0 is false
Zone(dt) == IF dt.valid THEN "+00" ELSE "-NaN"

\* anthropic.ts 97-119 and gemini.ts 153-167: new Date(s) does not throw for
\* a string, and neither do the getters of an invalid date, so the catch
\* blocks are never entered
ResetStr(resets) ==
    LET str(dt) == MonthDayTime(dt) \o " " \o Zone(dt)
    IN str(ParseDate(resets))

(***************************************************************************)
(* gemini.ts: formatQuota                                                  *)
(***************************************************************************)
\* A bucket of retrieveUserQuota: modelId ("" when it has none), whether it
\* has a remainingFraction and that fraction in thousandths, and resetTime
\* ("" when it has none).
Bucket(modelId, hasFraction, remaining, resetTime) ==
    [modelId |-> modelId, hasFraction |-> hasFraction, remaining |-> remaining,
     resetTime |-> resetTime]

\* line 129: buckets.sort((a, b) => (a.modelId || "").localeCompare(b.modelId || "")),
\* a stable sort: a bucket stays before the buckets after it that compare
\* equal to it.
RECURSIVE SortByModelId(_)
SortByModelId(buckets) ==
    IF buckets = << >> THEN << >>
    ELSE LET rest == SortByModelId(Tail(buckets))
             b == Head(buckets)
             before == {i \in 0..Len(rest) :
                           \A j \in 1..i : LocaleCompare(rest[j].modelId, b.modelId) < 0}
             i0 == CHOOSE i \in before : \A o \in before : o <= i
         IN SubSeq(rest, 1, i0) \o <<b>> \o SubSeq(rest, i0 + 1, Len(rest))

\* the reset time of the first bucket that reports one
RECURSIVE FirstReset(_, _)
FirstReset(buckets, earliest) ==
    IF buckets = << >> THEN earliest
    ELSE IF earliest = "" /\ Head(buckets).resetTime # ""
    THEN FirstReset(Tail(buckets), Head(buckets).resetTime)
    ELSE FirstReset(Tail(buckets), earliest)

\* lines 144-148 over the buckets in turn
RECURSIVE EarliestReset(_, _)
EarliestReset(buckets, earliest) ==
    IF buckets = << >> THEN earliest
    ELSE LET resetTime == Head(buckets).resetTime
         IN IF resetTime # "" /\ (earliest = "" \/ StrLess(resetTime, earliest))
            THEN EarliestReset(Tail(buckets), resetTime)
            ELSE EarliestReset(Tail(buckets), earliest)

\* `${usedPct.toFixed(1)}`, usedPct = (1 - remainingFrac) * 100
UsedPct(remaining) ==
    LET used == 1000 - remaining
        abs == IF used < 0 THEN -used ELSE used
    IN (IF used < 0 THEN "-" ELSE "") \o Dec(abs \div 10) \o "." \o Dec(abs % 10)

\* formatQuota, lines 124-171
FormatQuota(buckets) ==
    LET sorted == SortByModelId(buckets)
        model(b) == IF b.modelId # "" THEN b.modelId ELSE "unknown"
        lens == {Len(model(sorted[i])) : i \in 1..Len(sorted)} \cup {0}
        maxLen == CHOOSE n \in lens : \A o \in lens : o <= n
        padding(b) == Repeat(" ", maxLen - Len(model(b)))
        line(b) == model(b) \o padding(b) \o " : " \o UsedPct(b.remaining) \o "% Used"
        reported == SelectSeq(sorted, LAMBDA b : b.hasFraction)
        parts == [i \in 1..Len(reported) |-> line(reported[i])]
        earliestReset == EarliestReset(sorted, "")
    IN [usage |-> JoinStr(parts),
        resetTime |-> IF earliestReset # "" THEN "Reset: " \o ResetStr(earliestReset) ELSE ""]

(***************************************************************************)
(* anthropic.ts: formatUsage                                               *)
(***************************************************************************)
\* data.five_hour / data.seven_day: whether the window is there with a
\* utilization, its utilization (a whole number of percent) and resets_at
\* ("" when it has none)
Window(present, utilization, resets_at) ==
    [present |-> present, utilization |-> utilization, resets_at |-> resets_at]

\* lines 92-123 for one window
WindowLine(label, entry) ==
    LET resetStr == IF entry.resets_at # "" THEN ResetStr(entry.resets_at) ELSE ""
        suffix == IF resetStr # "" THEN "  Reset: " \o resetStr ELSE ""
    IN label \o ": " \o Dec(entry.utilization) \o "%" \o suffix

\* formatUsage, lines 83-126, of the usage object
FormatUsageData(five_hour, seven_day) ==
    JoinStr((IF five_hour.present THEN <<WindowLine("5h Window", five_hour)>> ELSE << >>)
            \o (IF seven_day.present THEN <<WindowLine("7d Window", seven_day)>> ELSE << >>))

(***************************************************************************)
(* The formatting functions, each applied to one input                     *)
(***************************************************************************)
NoExec == [kind |-> "none", stdout |-> "", stderr |-> "", message |-> ""]

NoWindow == Window(FALSE, 0, "")

NoInput == [fn |-> "", cliName |-> "", run |-> NoExec, buckets |-> << >>,
            five_hour |-> NoWindow, seven_day |-> NoWindow]

NoOutput == [done |-> FALSE, status |-> NULL, usage |-> "", resetTime |-> ""]

\* what a companion CLI prints
CliTexts == {"", "\n", "\r\n", "Logged in using ChatGPT\n", "Logged in using ChatGPT\r\n",
             "Not logged in\n", "logged in",
             "^[[32mLogged in as user@example.com^[[0m\nPlan: Pro\n",
             "Logged in as bob\r\nPlan: Pro\r\n",
             "error: unknown command\n", "/usr/local/bin/gemini\n"}

\* how the command of getCliStatus can end
ExecRuns ==
    {[kind |-> "ok", stdout |-> t, stderr |-> "", message |-> ""] : t \in CliTexts}
    \cup {[kind |-> "exit", stdout |-> t, stderr |-> e, message |-> "Command failed: status"] :
             t \in CliTexts, e \in {"", "Not logged in\n"}}
    \cup {[kind |-> "timeout", stdout |-> t, stderr |-> "", message |-> "Command failed: status"] :
             t \in {"", "Logged in as user@example.com\n"}}
    \cup {[kind |-> "missing", stdout |-> "", stderr |-> e, message |-> "Command failed: status"] :
             e \in {"", "/bin/sh: status: command not found\n"}}

CliNames == {"codex", "gemini", "cursor-agent", "claude", "other"}

\* the reset times of a bucket or a window: none, two times in UTC to the
\* second, a time with a fraction of a second and an offset, a 30th of
\* February, and two strings that are no dates
ResetTimes == {"", "2026-01-02T03:04:00Z", "2026-01-01T23:30:00Z",
               "2025-11-04T04:59:59.943648+00:00", "2026-02-30T00:00:00Z",
               "tomorrow at noon or so", "soon"}

\* the buckets: the two models with a fraction and every reset time, buckets
\* without a model id or with one in capitals, and buckets without a
\* fraction
Buckets ==
    {Bucket(m, TRUE, 600, r) : m \in {"gemini-flash", "gemini-pro"}, r \in ResetTimes}
    \cup {Bucket(m, f, 600, "") : m \in {"", "Gemini-Pro"}, f \in BOOLEAN}
    \cup {Bucket("gemini-pro", FALSE, 600, r) : r \in {"", "2026-01-02T03:04:00Z"}}

BucketLists == UNION {[1..n -> Buckets] : n \in 0..MaxBuckets}

Windows == {NoWindow} \cup {Window(TRUE, 40, r) : r \in ResetTimes}

\* getCliStatus(cliName) returns
GetCliStatusCall ==
    /\ fnInput.fn = "getCliStatus" /\ ~fnOutput.done
    /\ fnOutput' = [NoOutput EXCEPT !.done = TRUE,
                                   !.status = GetCliStatus(fnInput.cliName, fnInput.run)]
    /\ UNCHANGED fnInput

\* formatQuota(buckets) returns; line 129 has sorted the caller's array in
\* place
FormatQuotaCall ==
    /\ fnInput.fn = "formatQuota" /\ ~fnOutput.done
    /\ LET formatted == FormatQuota(fnInput.buckets)
       IN fnOutput' = [NoOutput EXCEPT !.done = TRUE,
                                      !.usage = formatted.usage,
                                      !.resetTime = formatted.resetTime]
    /\ fnInput' = [fnInput EXCEPT !.buckets = SortByModelId(fnInput.buckets)]

\* formatUsage(data) returns
FormatUsageCall ==
    /\ fnInput.fn = "formatUsage" /\ ~fnOutput.done
    /\ fnOutput' = [NoOutput EXCEPT !.done = TRUE,
                                   !.usage = FormatUsageData(fnInput.five_hour, fnInput.seven_day)]
    /\ UNCHANGED fnInput

\* autoLogin() is called on an OpenAIProvider instance between two fetches
OpenAIAutoLoginCall ==
    /\ prov = "openai" /\ pc = "idle" /\ ~fnOutput.done
    /\ fnInput' = [NoInput EXCEPT !.fn = "autoLogin"]
    /\ fnOutput' = [NoOutput EXCEPT !.done = TRUE,
                                   !.status = IF OpenAIAutoLogin.ret THEN "true" ELSE "false"]

(***************************************************************************)
(* Overlapping fetch cycles of one provider                                *)
(***************************************************************************)
\* The timer starts a poll every interval whether or not the poll before has
\* ended (part_006 192-194), and every poll constructs a new instance of each
\* provider and calls its fetch() (part_006 59-60): fetch() calls of one
\* provider overlap when one of them takes longer than the interval.  A slot
\* holds one such call: the provider, whether it has called autoLogin(), and
\* what that call did.
IdleFetch == [st |-> "idle", p |-> "", login |-> ""]

NoFetches == [i \in 1..MaxOverlap |-> IdleFetch]

\* updateProvider, part_006 53-60: a new instance of provider p is made and its
\* fetch() runs to its first await
FetchBegin(i, p) ==
    /\ fetches[i].st = "idle" /\ \A j \in 1..MaxOverlap : j < i => fetches[j].st # "idle"
    /\ fetches' = [fetches EXCEPT ![i] = [st |-> "running", p |-> p, login |-> ""]]

\* the fetch() in slot i comes back from an await and calls autoLogin() on its
\* instance (anthropic.ts 164 and 189, gemini.ts 231 and 265); autoLogin() has
\* no await, so it runs to its return in this step
FetchLogin(i, o) ==
    /\ fetches[i].st = "running"
    /\ AutoLogin(fetches[i].p, o)
    /\ LET r == AutoLoginResult(now, lastLoginLaunchAt[fetches[i].p], o)
       IN fetches' = [fetches EXCEPT ![i].st = "called",
                         ![i].login = IF r.launched THEN "launched"
                                      ELSE IF r.ret THEN "cooldown" ELSE "failed"]

\* the fetch() in slot i returns, and its instance is dropped
FetchEnd(i) ==
    /\ fetches[i].st # "idle"
    /\ fetches' = [fetches EXCEPT ![i] = IdleFetch]

\* the time over which overlapping fetch() calls are followed: one cooldown
\* and two seconds more
OverlapWindow == LOGIN_COOLDOWN_MS + 2000

\* 59 s and 61 s, so that 118 s, 120 s and 122 s after a launch are reached
OverlapSteps == {59000, 61000}

\* time passes while the fetch() calls wait
OverlapTick(d) ==
    /\ now + d <= StartTime + OverlapWindow
    /\ now' = now + d
    /\ UNCHANGED ticks

(***************************************************************************)
(* Specifications                                                          *)
(***************************************************************************)
\* The keychain cache under concurrent reads.
NextCache ==
    \/ \E c \in 1..MaxCalls, k \in Keys, ttl \in TTLs :
          /\ CacheFresh(cacheFile[k], now, ttl) \/ lookups < MaxLookups
          /\ GetKeychainPasswordBegin(c, k, ttl) /\ UNCHANGED <<clockVars, loginVars, fileVars, fetchVars, runVars, formatVars, overlapVars, clearVars>>
    \/ \E c \in 1..MaxCalls, failed \in BOOLEAN :
          GetKeychainPasswordEnd(c, failed) /\ UNCHANGED <<clockVars, loginVars, fileVars, fetchVars, runVars, formatVars, overlapVars, clearVars>>
    \/ \E k \in Keys : \E v \in StoreWrites(k) :
          StoreChange(k, v) /\ UNCHANGED <<clockVars, loginVars, fileVars, fetchVars, runVars, formatVars, overlapVars, clearVars>>
    \/ \E d \in CacheTickSteps : Tick(d) /\ UNCHANGED <<cacheVars, loginVars, fileVars, fetchVars, runVars, formatVars, overlapVars, clearVars>>

InitCache ==
    /\ now = StartTime /\ ticks = 0
    /\ store \in InitStore
    /\ storeChanges = 0
    /\ cacheFile = EmptyCache
    /\ calls = NoCalls
    /\ lastRead = NoReads
    /\ lastDone = NoDone
    /\ lookups = 0
    /\ lastLoginLaunchAt = [p \in LoginProviders |-> 0]
    /\ launches = [p \in LoginProviders |-> 0]
    /\ prevLaunchAt = [p \in LoginProviders |-> 0]
    /\ firstLaunchAt = [p \in LoginProviders |-> 0]
    /\ flow = [p \in LoginProviders |-> "none"]
    /\ lastCall = [p \in LoginProviders |-> NoCall]
    /\ files = [f \in FilePaths |-> Absent]
    /\ fileWrites = 0
    /\ lastFileRead = NoFileRead
    /\ prov = "claude"
    /\ manual = [usage_text |-> EmptyText, reset_time |-> EmptyText]
    /\ missingOauth = FALSE
    /\ pc = "idle"
    /\ loc = Loc0
    /\ log = << >>
    /\ result = NoResult
    /\ cycles = 0
    /\ cachedResults = [k \in RunKeys |-> NoCached]
    /\ task = [r \in 1..MaxPolls |-> [k \in RunKeys |-> "none"]]
    /\ pending = [r \in 1..MaxPolls |-> FALSE]
    /\ polls = 0
    /\ lastSettle = NoSettle
    /\ fnInput = NoInput /\ fnOutput = NoOutput
    /\ fetches = NoFetches
    /\ cleared = {}

SpecCache == InitCache /\ [][NextCache]_vars

\* The login cooldown of the two providers that launch a flow.
NextLogin ==
    \/ \E p \in LoginProviders, o \in LaunchOutcomes :
          AutoLogin(p, o) /\ UNCHANGED <<clockVars, cacheVars, fileVars, fetchVars, runVars, formatVars, overlapVars, clearVars>>
    \/ \E p \in LoginProviders : FlowFinish(p) /\ UNCHANGED <<clockVars, cacheVars, fileVars, fetchVars, runVars, formatVars, overlapVars, clearVars>>
    \/ \E d \in TickSteps :
          Tick(d) /\ UNCHANGED <<cacheVars, loginVars, fileVars, fetchVars, runVars, formatVars, overlapVars, clearVars>>

InitLogin ==
    /\ now = StartTime /\ ticks = 0
    /\ store = [k \in Keys |-> ""]
    /\ storeChanges = 0
    /\ cacheFile = EmptyCache
    /\ calls = NoCalls
    /\ lastRead = NoReads
    /\ lastDone = NoDone
    /\ lookups = 0
    /\ lastLoginLaunchAt = [p \in LoginProviders |-> 0]
    /\ launches = [p \in LoginProviders |-> 0]
    /\ prevLaunchAt = [p \in LoginProviders |-> 0]
    /\ firstLaunchAt = [p \in LoginProviders |-> 0]
    /\ flow = [p \in LoginProviders |-> "none"]
    /\ lastCall = [p \in LoginProviders |-> NoCall]
    /\ files = [f \in FilePaths |-> Absent]
    /\ fileWrites = 0
    /\ lastFileRead = NoFileRead
    /\ prov = "claude"
    /\ manual = [usage_text |-> EmptyText, reset_time |-> EmptyText]
    /\ missingOauth = FALSE
    /\ pc = "idle"
    /\ loc = Loc0
    /\ log = << >>
    /\ result = NoResult
    /\ cycles = 0
    /\ cachedResults = [k \in RunKeys |-> NoCached]
    /\ task = [r \in 1..MaxPolls |-> [k \in RunKeys |-> "none"]]
    /\ pending = [r \in 1..MaxPolls |-> FALSE]
    /\ polls = 0
    /\ lastSettle = NoSettle
    /\ fnInput = NoInput /\ fnOutput = NoOutput
    /\ fetches = NoFetches
    /\ cleared = {}

SpecLogin == InitLogin /\ [][NextLogin]_vars

\* The credential files of the two file providers.
NextFiles ==
    \/ \E p \in FileProviders :
          ReadCredentials(p) /\ UNCHANGED <<clockVars, cacheVars, loginVars, fetchVars, runVars, formatVars, overlapVars, clearVars>>
    \/ \E at \in {"new", ""}, idt \in {"", "jwtUser"} :
          SaveRefreshed(RefreshResponse(at, idt)) /\ UNCHANGED <<clockVars, cacheVars, loginVars, fetchVars, runVars, formatVars, overlapVars, clearVars>>
    \/ \E p \in FileProviders : \E c \in FileContents(p) \ {Absent} :
          CliWrites(p, c) /\ UNCHANGED <<clockVars, cacheVars, loginVars, fetchVars, runVars, formatVars, overlapVars, clearVars>>

InitFiles ==
    /\ now = StartTime /\ ticks = 0
    /\ store = [k \in Keys |-> ""]
    /\ storeChanges = 0
    /\ cacheFile = EmptyCache
    /\ calls = NoCalls
    /\ lastRead = NoReads
    /\ lastDone = NoDone
    /\ lookups = 0
    /\ lastLoginLaunchAt = [p \in LoginProviders |-> 0]
    /\ launches = [p \in LoginProviders |-> 0]
    /\ prevLaunchAt = [p \in LoginProviders |-> 0]
    /\ firstLaunchAt = [p \in LoginProviders |-> 0]
    /\ flow = [p \in LoginProviders |-> "none"]
    /\ lastCall = [p \in LoginProviders |-> NoCall]
    /\ files \in {[f \in FilePaths |-> IF f \in {"codexLegacy", "geminiLegacy"} THEN l ELSE n] :
                     l \in FileContents("gemini"), n \in {Absent, Flat("old", "ref1", "jwtUser")}}
                \cup {[f \in FilePaths |-> IF f = "codexLegacy" THEN l
                                          ELSE IF f = "codexNew" THEN n ELSE Absent] :
                     l \in FileContents("openai"), n \in {Absent, Nested("old", "acct1", "")}}
    /\ fileWrites = 0
    /\ lastFileRead = NoFileRead
    /\ prov = "claude"
    /\ manual = [usage_text |-> EmptyText, reset_time |-> EmptyText]
    /\ missingOauth = FALSE
    /\ pc = "idle"
    /\ loc = Loc0
    /\ log = << >>
    /\ result = NoResult
    /\ cycles = 0
    /\ cachedResults = [k \in RunKeys |-> NoCached]
    /\ task = [r \in 1..MaxPolls |-> [k \in RunKeys |-> "none"]]
    /\ pending = [r \in 1..MaxPolls |-> FALSE]
    /\ polls = 0
    /\ lastSettle = NoSettle
    /\ fnInput = NoInput /\ fnOutput = NoOutput
    /\ fetches = NoFetches
    /\ cleared = {}

SpecFiles == InitFiles /\ [][NextFiles]_vars

\* One provider's fetch cycles, poll after poll.
NextFetch ==
    \/ OpenAIAutoLoginCall /\ UNCHANGED <<clockVars, cacheVars, loginVars, fileVars, fetchVars, runVars, overlapVars, clearVars>>
    \/ \E p \in {"gemini", "openai", "cursor"} :
          FetchStart(p) /\ UNCHANGED <<clockVars, cacheVars, loginVars, fileVars, runVars, formatVars, overlapVars, clearVars>>
    \/ \E c \in 1..MaxCalls, o \in LaunchOutcomes :
          ClaudeStart(c, o) /\ UNCHANGED <<clockVars, fileVars, runVars, formatVars, overlapVars, clearVars>>
    \/ \E failed \in BOOLEAN, o \in LaunchOutcomes :
          ClaudeCredsRead(failed, o) /\ UNCHANGED <<clockVars, fileVars, runVars, formatVars, overlapVars, clearVars>>
    \/ \E out \in ProfileOutcomes :
          ClaudeProfile(out) /\ UNCHANGED <<clockVars, cacheVars, fileVars, runVars, formatVars, overlapVars, clearVars>>
    \/ \E out \in UsageOutcomes, o \in LaunchOutcomes :
          ClaudeUsage(out, o) /\ UNCHANGED <<clockVars, cacheVars, fileVars, runVars, formatVars, overlapVars, clearVars>>
    \/ \E c \in 1..MaxCalls : ClaudeReread(c) /\ UNCHANGED <<clockVars, fileVars, runVars, formatVars, overlapVars, clearVars>>
    \/ \E failed \in BOOLEAN : ClaudeCredsReread(failed) /\ UNCHANGED <<clockVars, fileVars, runVars, formatVars, overlapVars, clearVars>>
    \/ \E out \in UsageOutcomes : ClaudeRetry(out) /\ UNCHANGED <<clockVars, cacheVars, fileVars, runVars, formatVars, overlapVars, clearVars>>
    \/ \E out \in ProfileOutcomes :
          ClaudeProfile2(out) /\ UNCHANGED <<clockVars, cacheVars, fileVars, runVars, formatVars, overlapVars, clearVars>>
    \/ \E installed \in BOOLEAN, o \in LaunchOutcomes :
          GeminiCli(installed, o) /\ UNCHANGED <<clockVars, cacheVars, runVars, formatVars, overlapVars, clearVars>>
    \/ \E out \in ProjectOutcomes, o \in LaunchOutcomes :
          GeminiProject1(out, o) /\ UNCHANGED <<clockVars, cacheVars, runVars, formatVars, overlapVars, clearVars>>
    \/ \E out \in RefreshOutcomes, o \in LaunchOutcomes :
          GeminiRefresh(out, o) /\ UNCHANGED <<clockVars, cacheVars, runVars, formatVars, overlapVars, clearVars>>
    \/ \E out \in ProjectOutcomes, o \in LaunchOutcomes :
          GeminiProject2(out, o) /\ UNCHANGED <<clockVars, cacheVars, runVars, formatVars, overlapVars, clearVars>>
    \/ \E out \in QuotaOutcomes : GeminiQuota(out) /\ UNCHANGED <<clockVars, cacheVars, runVars, formatVars, overlapVars, clearVars>>
    \/ \E out \in ProjectOutcomes : GeminiProject3(out) /\ UNCHANGED <<clockVars, cacheVars, runVars, formatVars, overlapVars, clearVars>>
    \/ \E out \in QuotaOutcomes : GeminiQuota3(out) /\ UNCHANGED <<clockVars, cacheVars, runVars, formatVars, overlapVars, clearVars>>
    \/ \E out \in CodexOutputs : OpenAICli(out) /\ UNCHANGED <<clockVars, cacheVars, runVars, formatVars, overlapVars, clearVars>>
    \/ \E out \in OpenAIOutcomes :
          OpenAIUsage(out) /\ UNCHANGED <<clockVars, cacheVars, fileVars, runVars, formatVars, overlapVars, clearVars>>
    \/ \E out \in CursorOutputs, c \in 1..MaxCalls :
          CursorCli(out, c) /\ UNCHANGED <<clockVars, fileVars, runVars, formatVars, overlapVars, clearVars>>
    \/ \E failed \in BOOLEAN : CursorTokenRead(failed) /\ UNCHANGED <<clockVars, fileVars, runVars, formatVars, overlapVars, clearVars>>
    \/ \E oks \in SUBSET CursorMethods :
          CursorApi(oks) /\ UNCHANGED <<clockVars, cacheVars, fileVars, runVars, formatVars, overlapVars, clearVars>>
    \/ \E d \in PollSteps :
          PollTick(d) /\ UNCHANGED <<cacheVars, loginVars, fileVars, fetchVars, runVars, formatVars, overlapVars, clearVars>>
    \/ \E v \in {"", "credB", "cursorTok"} :
          /\ v \in StoreWrites(IF prov = "claude" THEN ClaudeKey ELSE CursorKey)
          /\ KeychainLogin(v) /\ UNCHANGED <<clockVars, loginVars, fileVars, fetchVars, runVars, formatVars, overlapVars, clearVars>>
    \/ \E content \in {Flat("new", "ref1", "jwtUser"), Nested("new", "acct1", "jwtUser")} :
          /\ content.kind = (IF prov = "openai" THEN "nested" ELSE "flat")
          /\ FileLogin(content) /\ UNCHANGED <<clockVars, cacheVars, loginVars, fetchVars, runVars, formatVars, overlapVars, clearVars>>

\* the cache file a process finds when it starts: none, or one that an
\* earlier process wrote a minute ago
InitCacheFiles(st) ==
    {EmptyCache} \cup
    {[k \in Keys |-> IF st[k] = "" THEN NoEntry ELSE Entry(st[k], StartTime - 60000)]}

InitFetch ==
    /\ now = StartTime /\ ticks = 0
    /\ prov \in Providers
    /\ manual \in Manuals
    /\ missingOauth \in (IF prov = "gemini" THEN BOOLEAN ELSE {FALSE})
    /\ store \in (IF prov = "claude"
                  THEN {[k \in Keys |-> IF k = ClaudeKey THEN v ELSE ""] :
                           v \in {"", "credA", "credNoRefresh", "garbage"}}
                  ELSE IF prov = "cursor"
                  THEN {[k \in Keys |-> IF k = CursorKey THEN v ELSE ""] : v \in {"", "cursorTok"}}
                  ELSE {[k \in Keys |-> ""]})
    /\ storeChanges = 0
    /\ cacheFile \in InitCacheFiles(store)
    /\ calls = NoCalls
    /\ lastRead = NoReads
    /\ lastDone = NoDone
    /\ lookups = 0
    /\ lastLoginLaunchAt = [p \in LoginProviders |-> 0]
    /\ launches = [p \in LoginProviders |-> 0]
    /\ prevLaunchAt = [p \in LoginProviders |-> 0]
    /\ firstLaunchAt = [p \in LoginProviders |-> 0]
    /\ flow = [p \in LoginProviders |-> "none"]
    /\ lastCall = [p \in LoginProviders |-> NoCall]
    /\ files \in (IF prov = "gemini"
                  THEN {[f \in FilePaths |-> IF f = "geminiLegacy" THEN l ELSE Absent] :
                           l \in {Absent, Garbage, Flat("old", "ref1", "jwtUser"),
                                  Flat("old", "", ""), Flat("", "ref1", "")}}
                  ELSE IF prov = "openai"
                  THEN {[f \in FilePaths |-> IF f = "codexLegacy" THEN l
                                            ELSE IF f = "codexNew" THEN n ELSE Absent] :
                           l \in FileContents("openai"), n \in {Absent, Nested("old", "acct1", "")}}
                  ELSE {[f \in FilePaths |-> Absent]})
    /\ fileWrites = 0
    /\ lastFileRead = NoFileRead
    /\ pc = "idle"
    /\ loc = Loc0
    /\ log = << >>
    /\ result = NoResult
    /\ cycles = 0
    /\ cachedResults = [k \in RunKeys |-> NoCached]
    /\ task = [r \in 1..MaxPolls |-> [k \in RunKeys |-> "none"]]
    /\ pending = [r \in 1..MaxPolls |-> FALSE]
    /\ polls = 0
    /\ lastSettle = NoSettle
    /\ fnInput = NoInput /\ fnOutput = NoOutput
    /\ fetches = NoFetches
    /\ cleared = {}

SpecFetch == InitFetch /\ [][NextFetch]_vars

\* The polls of the main loop.
NextRun ==
    \/ \E r \in 1..MaxPolls :
          Run(r) /\ UNCHANGED providerVars
    \/ \E r \in 1..MaxPolls, k \in RunKeys, out \in FetchOutcomes :
          UpdateProvider(r, k, out)
          /\ UNCHANGED providerVars
    \/ \E r \in 1..MaxPolls :
          RunEnd(r) /\ UNCHANGED providerVars

InitRun ==
    /\ now = StartTime /\ ticks = 0
    /\ store = [k \in Keys |-> ""]
    /\ storeChanges = 0
    /\ cacheFile = EmptyCache
    /\ calls = NoCalls
    /\ lastRead = NoReads
    /\ lastDone = NoDone
    /\ lookups = 0
    /\ lastLoginLaunchAt = [p \in LoginProviders |-> 0]
    /\ launches = [p \in LoginProviders |-> 0]
    /\ prevLaunchAt = [p \in LoginProviders |-> 0]
    /\ firstLaunchAt = [p \in LoginProviders |-> 0]
    /\ flow = [p \in LoginProviders |-> "none"]
    /\ lastCall = [p \in LoginProviders |-> NoCall]
    /\ files = [f \in FilePaths |-> Absent]
    /\ fileWrites = 0
    /\ lastFileRead = NoFileRead
    /\ prov = "claude"
    /\ manual = [usage_text |-> EmptyText, reset_time |-> EmptyText]
    /\ missingOauth = FALSE
    /\ pc = "idle"
    /\ loc = Loc0
    /\ log = << >>
    /\ result = NoResult
    /\ cycles = 0
    /\ cachedResults = [k \in RunKeys |-> NoCached]
    /\ task = [r \in 1..MaxPolls |-> [k \in RunKeys |-> "none"]]
    /\ pending = [r \in 1..MaxPolls |-> FALSE]
    /\ polls = 0
    /\ lastSettle = NoSettle
    /\ fnInput = NoInput /\ fnOutput = NoOutput
    /\ fetches = NoFetches
    /\ cleared = {}

\* every fetch() that runs comes to its end (each of its external calls has a
\* timeout), and a resolved Promise.all is observed
SpecRun ==
    /\ InitRun /\ [][NextRun]_vars
    /\ \A r \in 1..MaxPolls : WF_vars(RunEnd(r) /\ UNCHANGED providerVars)
    /\ \A r \in 1..MaxPolls, k \in RunKeys :
          WF_vars((\E out \in FetchOutcomes : UpdateProvider(r, k, out))
                  /\ UNCHANGED providerVars)

(***************************************************************************)
(* The keychain cache                                                      *)
(***************************************************************************)
\* C1: a getKeychainPassword call with ttl > 0 for a key whose last completed
\* store read was made at t0 returns that read's value without a store lookup
\* when it is made before t0 + ttl, and starts a new lookup from t0 + ttl on.
C1_CacheTTL ==
    [][\A c \in 1..MaxCalls, k \in Keys, ttl \in TTLs \ {0} :
         (GetKeychainPasswordBegin(c, k, ttl) /\ lastRead[k].present) =>
            IF now - lastRead[k].timestamp < ttl
            THEN /\ lookups' = lookups
                 /\ lastDone' = [called |-> TRUE, key |-> k,
                                 ret |-> lastRead[k].value, hit |-> TRUE]
            ELSE lookups' = lookups + 1]_vars

\* C8: when no getKeychainPassword call is in flight, the cache file holds,
\* for every key that was read from the store, the entry the last-completing
\* read of that key wrote.
C8_CacheIntegrity ==
    (\A c \in 1..MaxCalls : calls[c].st = "idle") =>
        \A k \in Keys : lastRead[k].present => cacheFile[k] = lastRead[k]

(***************************************************************************)
(* The login cooldown                                                      *)
(***************************************************************************)
\* C2: an autoLogin() call made less than 120 s after a launch of the same
\* provider launches nothing, returns true and leaves lastLoginLaunchAt as
\* it was, whether the launched flow is still running or has finished; so two
\* launches of one provider are never less than 120 s apart.
C2_CooldownIdempotence ==
    \A p \in LoginProviders :
        LET c == lastCall[p]
        IN (c.called /\ c.prevLaunch # 0 /\ c.at - c.prevLaunch < LOGIN_COOLDOWN_MS) =>
              /\ ~c.attempted
              /\ ~c.launched
              /\ c.count = c.countBefore
              /\ c.ret = TRUE
              /\ c.after = c.before

C2_Witness ==
    /\ lastCall["claude"].called /\ lastCall["gemini"].called
    /\ lastCall["claude"].prevLaunch # 0
    /\ lastCall["claude"].at - lastCall["claude"].prevLaunch = 60000
    /\ lastCall["claude"].flow = "running"
    /\ lastCall["claude"].ret
    /\ lastCall["gemini"].prevLaunch # 0
    /\ lastCall["gemini"].at - lastCall["gemini"].prevLaunch = 119000
    /\ lastCall["gemini"].flow = "finished"
    /\ lastCall["gemini"].ret

\* C3: an autoLogin() call attempts a launch exactly when at least 120 s have
\* passed since lastLoginLaunchAt (always on the first call of the process);
\* a launch that starts sets lastLoginLaunchAt to its time, any other call
\* leaves it; with a launch at t the count is 1, it is still 1 after a call
\* at t + 60 s, and a call at t + 121 s whose launch starts makes it 2.
C3_CooldownExpiry ==
    \A p \in LoginProviders :
        LET c == lastCall[p]
        IN c.called =>
              /\ c.attempted <=> (c.at - c.before >= LOGIN_COOLDOWN_MS)
              /\ c.before = 0 => c.attempted
              /\ c.launched <=> (c.attempted /\ c.outcome = "started")
              /\ c.after = (IF c.launched THEN c.at ELSE c.before)
              /\ lastLoginLaunchAt[p] = c.after
              /\ c.count = c.countBefore + (IF c.launched THEN 1 ELSE 0)
              /\ (c.countBefore = 1 /\ c.at - firstLaunchAt[p] = 60000) =>
                     (c.count = 1 /\ c.ret)
              /\ (c.countBefore = 1 /\ c.at - firstLaunchAt[p] = 121000
                     /\ c.outcome = "started") => c.count = 2

C3_Witness ==
    /\ launches["claude"] = 2
    /\ lastLoginLaunchAt["claude"] = firstLaunchAt["claude"] + 121000
    /\ launches["gemini"] = 1
    /\ lastCall["gemini"].at = firstLaunchAt["gemini"] + 60000
    /\ lastCall["gemini"].ret /\ ~lastCall["gemini"].attempted

(***************************************************************************)
(* The credential files                                                    *)
(***************************************************************************)
\* C10: for OpenAI/Codex and for Gemini, one credential read with the legacy
\* file holding {"access_token":"abc"} and no new-path file leaves a new-path
\* file with the same content, leaves the legacy file as it was, and returns
\* the token "abc".
C10_LegacyMigration ==
    \A p \in FileProviders :
        LET r == lastFileRead
        IN (/\ r.called /\ r.p = p
            /\ r.pre[LegacyPath(p)] = Flat("abc", "", "")
            /\ r.pre[NewPath(p)] = Absent) =>
              /\ r.post[NewPath(p)] = Flat("abc", "", "")
              /\ r.post[LegacyPath(p)] = Flat("abc", "", "")
              /\ r.token = "abc"

(***************************************************************************)
(* The fetch cycle                                                         *)
(***************************************************************************)
\* the calls of the cycle that carry a bearer token
AuthenticatedOps == {"getProjectId", "getQuota", "fetchUsage", "fetchProfile",
                     "fetchOpenAIUsage", "cursorApi"}

CallsOf(op) == {i \in 1..Len(log) : log[i].op = op}

\* a fetch cycle has ended, and `log` holds its calls
CycleEnded == pc = "idle" /\ cycles > 0

\* A Gemini cycle whose first getProjectId got a 401, whose refresh grant
\* returned tokens, and whose retried getProjectId got a 401 again.
RefreshThenRejected ==
    /\ prov = "gemini" /\ Len(log) >= 4
    /\ log[1] = Call("readCreds", log[1].token, "found") /\ log[1].token # ""
    /\ log[2] = Call("getProjectId", log[1].token, "e401")
    /\ log[3].op = "refresh" /\ log[3].out = "tokens"
    /\ log[4].op = "getProjectId" /\ log[4].out = "e401"

\* C4: in a Gemini cycle whose first getProjectId is rejected with 401 and
\* whose refresh grant succeeds, the call is retried once, after the refresh
\* and with the new access token; when the retry is rejected with 401 too, the
\* cycle ends with a reported error, with no second refresh, no login launch
\* and no further authenticated call.
C4_SingleRefreshRetry ==
    (CycleEnded /\ RefreshThenRejected) =>
        /\ log[4].token = "tokNew"
        /\ Cardinality(CallsOf("refresh")) = 1
        /\ Cardinality(CallsOf("getProjectId")) = 2
        /\ \A i \in 5..Len(log) : log[i].op \notin AuthenticatedOps
        /\ \A i \in CallsOf("autoLogin") : log[i].out # "launched"
        /\ result.returned /\ result.error # ""

\* What gemini.ts 203-261 does in the case of C4: the retry is made once,
\* after the refresh and with the new access token, and there is no second
\* refresh; when the retry is rejected with 401 too, autoLogin() is called
\* once (and launches the CLI unless the cooldown holds); when it returns
\* true and the credentials read again hold an access token, one more
\* getProjectId and at most one getQuota are made with that token; the cycle
\* ends with formatQuota throwing (buckets that are no list), or it returns
\* and reports an error unless that last attempt gave usage.
C4_RefreshRetryThenLogin ==
    (CycleEnded /\ RefreshThenRejected) =>
        /\ log[4].token = "tokNew"
        /\ Cardinality(CallsOf("refresh")) = 1
        /\ Len(log) >= 5 /\ CallsOf("autoLogin") = {5}
        /\ Cardinality(CallsOf("getProjectId")) <= 3
        /\ Cardinality(CallsOf("getQuota")) <= 1
        /\ Cardinality(CallsOf("getProjectId")) = 3 =>
              /\ log[5].out # "failed"
              /\ log[6] = Call("readCreds", log[6].token, "found")
              /\ log[7] = Call("getProjectId", log[6].token, log[7].out)
        /\ \A i \in CallsOf("getQuota") : log[i].token = log[6].token
        /\ \/ result.threw
           \/ /\ result.returned
              /\ result.error = "" <=> \E i \in CallsOf("getQuota") : log[i].out = "ok"

\* after the second 401 the login is launched and the chain is tried a third
\* time with the credentials read again
C4_Witness ==
    /\ CycleEnded /\ RefreshThenRejected
    /\ log[5] = Call("autoLogin", "", "launched")
    /\ Cardinality(CallsOf("getProjectId")) = 3
    /\ result.returned /\ result.error # ""

\* the errors of a request that failed: lines 184 (anthropic.ts), 226 and 260
\* (gemini.ts)
GenericErrors == {"Failed to fetch usage", "Failed to get project ID"}

\* The cycle found a token and its authenticated call failed, not with a 401:
\* a network error or other status ("err"), an empty body, or a malformed
\* payload.
NonAuthFailure ==
    /\ Len(log) >= 1 /\ log[1] = Call("readCreds", log[1].token, "found") /\ log[1].token # ""
    /\ \/ /\ prov = "claude" /\ Len(log) >= 3
          /\ log[3].op = "fetchUsage"
          /\ log[3].out \in {"err", "emptyBody", "noWindows", "badType"}
       \/ /\ prov = "gemini" /\ Len(log) >= 2
          /\ log[2].op = "getProjectId" /\ log[2].out \in {"err", "noProject"}
       \/ /\ prov = "gemini" /\ Len(log) >= 3
          /\ log[2] = Call("getProjectId", log[1].token, "ok")
          /\ log[3].op = "getQuota" /\ log[3].out \in {"err", "noBuckets", "badBuckets"}

\* C5: when the authenticated call of an Anthropic or Gemini cycle fails for
\* another reason than a 401 while a token is present, the result carries a
\* generic fetch error, the failure is not flagged as an auth error,
\* autoLogin() is not called and no token refresh is attempted.
C5_NonAuthFailureIsGeneric ==
    (CycleEnded /\ NonAuthFailure) =>
        /\ result.returned /\ result.error \in GenericErrors
        /\ ~loc.isAuthError
        /\ CallsOf("autoLogin") = {}
        /\ CallsOf("refresh") = {}

\* C7: the usage_text of every SubscriptionInfo that a fetch() returns is a
\* non-empty string with something visible in it.  (A fetch() that throws
\* returns no SubscriptionInfo.)
C7_NeverEmpty ==
    result.returned => Truthy(result.usage_text) /\ Truthy(Trim(result.usage_text))

\* no credentials, no CLI, nothing configured: the default status line alone
C7_Witness ==
    /\ CycleEnded /\ prov = "openai" /\ result.returned
    /\ ~loc.hadCreds /\ loc.status = EmptyText /\ manual.usage_text = EmptyText
    /\ result.usage_text = T("Codex login not detected")

\* C9: in the Anthropic cycle, the credential read that follows an
\* autoLogin() that returned true goes to the OS store (it is made with TTL 0,
\* so no cached entry answers it), and the retried usage call carries the
\* access token of what the store returned to that read, not the token that
\* was cached before the login.
C9_RetryReadsFresh ==
    /\ (prov = "claude" /\ pc = "a_retry") =>
          /\ lastDone = [called |-> TRUE, key |-> ClaudeKey,
                         ret |-> lastRead[ClaudeKey].value, hit |-> FALSE]
          /\ lookups > loc.lookupsAtLogin
          /\ lastRead[ClaudeKey].timestamp >= lastCall["claude"].at
          /\ lastCall["claude"].ret
          /\ loc.retryToken = ParseClaude(lastRead[ClaudeKey].value).accessToken
    /\ prov = "claude" =>
          \A i \in CallsOf("fetchUsage") :
              (\E j \in CallsOf("autoLogin") : j < i) =>
                  log[i - 1] = Call("readCreds", log[i].token, "found")

\* the first read gave the credential with tokA; the user logged in again
\* while the cycle ran, and the retry carries tokB
C9_Witness ==
    /\ prov = "claude" /\ pc = "a_retry"
    /\ loc.hadCreds /\ loc.token = "tokA" /\ loc.retryToken = "tokB"
    /\ cacheFile[ClaudeKey].value = "credB"

(***************************************************************************)
(* The poll                                                                *)
(***************************************************************************)
\* C6: when the fetch() of provider X ends in a poll, whether it returns,
\* returns after a failed step, returns nothing or throws, the cachedResults
\* entry and the running fetch of every other provider Y are as they were; and
\* a fetch of Y that runs can always come to its end, whatever X's did.
C6_DegradationIndependence ==
    /\ [][\A r \in 1..MaxPolls, x \in RunKeys :
            (\E out \in FetchOutcomes : UpdateProvider(r, x, out)) =>
                \A y \in RunKeys \ {x} :
                    /\ cachedResults'[y] = cachedResults[y]
                    /\ \A q \in 1..MaxPolls : task'[q][y] = task[q][y]]_vars
    /\ [](\A r \in 1..MaxPolls, y \in RunKeys :
            task[r][y] = "fetching" =>
                ENABLED (UpdateProvider(r, y, "returned") /\ UNCHANGED providerVars))

\* the second poll: claude's fetch has thrown while gemini's still runs, and
\* gemini's and cursor's entries of the first poll are in place
C6_Witness ==
    /\ lastSettle = [called |-> TRUE, run |-> 2, key |-> "claude", out |-> "threw",
                     rendered |-> FALSE]
    /\ cachedResults["claude"] = Fetched(1, "returned")
    /\ task[2]["gemini"] = "fetching"
    /\ cachedResults["gemini"] = Fetched(1, "returned")
    /\ cachedResults["cursor"] = Fetched(1, "degraded")

(***************************************************************************)
(* The credential files: precedence and writes                             *)
(***************************************************************************)
\* the token the legacy file of provider p holds, as p's reader parses it
LegacyToken(fs, p) ==
    IF p = "openai" THEN ParseCodex(fs["codexLegacy"]).token
    ELSE ParseGemini(fs["geminiLegacy"]).at

\* C11: for OpenAI/Codex and for Gemini, a credential read made while the
\* legacy file exists returns what the legacy file holds at that moment, also
\* when a new-path file with other (older) content exists.
C11_LegacyPreferred ==
    \A p \in FileProviders :
        LET r == lastFileRead
        IN (r.called /\ r.p = p /\ Exists(r.pre, LegacyPath(p))) =>
              r.token = LegacyToken(r.pre, p)

\* the legacy credential files
LegacyPaths == {LegacyPath(p) : p \in FileProviders}

\* C12: a credential read (with the migration it makes) and a save of
\* refreshed tokens leave both legacy files as they were; the save changes the
\* new-path Gemini file only, and writes the credential object read before
\* with the fields of the refresh response laid over it, so that a field the
\* response does not carry keeps its value.
C12_LegacyNeverMutated ==
    /\ [][/\ \A p \in FileProviders :
                ReadCredentials(p) => \A f \in LegacyPaths : files'[f] = files[f]
          /\ \A at \in {"new", ""}, idt \in {"", "jwtUser"} :
                SaveRefreshed(RefreshResponse(at, idt)) =>
                    LET current == ReadGeminiCreds(files)
                        written == files'["geminiNew"]
                    IN /\ \A f \in FilePaths \ {"geminiNew"} : files'[f] = files[f]
                       /\ written.kind = "flat"
                       /\ written.at = (IF at # "" THEN at ELSE current.at)
                       /\ written.rt = current.rt
                       /\ written.idt = (IF idt # "" THEN idt ELSE current.idt)]_vars
    /\ [](\A p \in FileProviders : \A f \in LegacyPaths :
             MigrateFromLegacy(files, p)[f] = files[f])

\* refreshed tokens have been saved: the new-path file holds the new access
\* token with the refresh token and id token of the legacy file, which is as
\* it was
C12_Witness ==
    /\ files["geminiLegacy"] = Flat("old", "ref1", "jwtUser")
    /\ files["geminiNew"] = Flat("new", "ref1", "jwtUser")

(***************************************************************************)
(* The keychain cache: failures and forced reads                           *)
(***************************************************************************)
\* C13: every store lookup of getKeychainPassword, when it returns, leaves an
\* entry for its key, holding null when the lookup gave nothing or failed,
\* with the call's timestamp; and a later read of a key whose last lookup
\* gave null, made within the TTL, returns null without a new lookup.
C13_FailuresCached ==
    [][/\ \A c \in 1..MaxCalls, failed \in BOOLEAN :
             GetKeychainPasswordEnd(c, failed) =>
                LET k == calls[c].key
                IN /\ cacheFile'[k].present
                   /\ cacheFile'[k].timestamp = calls[c].ts
                   /\ (failed \/ store[k] = "") => cacheFile'[k].value = NULL
       /\ \A c \in 1..MaxCalls, k \in Keys, ttl \in TTLs \ {0} :
             (/\ GetKeychainPasswordBegin(c, k, ttl)
              /\ lastRead[k].present /\ lastRead[k].value = NULL
              /\ now - lastRead[k].timestamp < ttl) =>
                /\ lookups' = lookups
                /\ lastDone' = [called |-> TRUE, key |-> k, ret |-> NULL, hit |-> TRUE]]_vars

\* C14: a getKeychainPassword call with ttl 0 always starts a store lookup,
\* whatever entry the cache holds; a lookup that returns gives the caller what
\* the store holds then and leaves that value as the key's entry; the default
\* TTL is 30 minutes; and no call returns an entry whose age is at or past the
\* call's TTL.
C14_ForcedRead ==
    /\ [][/\ \A c \in 1..MaxCalls, k \in Keys :
                GetKeychainPasswordBegin(c, k, 0) =>
                    /\ lookups' = lookups + 1
                    /\ calls'[c].st = "wait" /\ calls'[c].key = k
                    /\ lastDone' = lastDone
          /\ \A c \in 1..MaxCalls, k \in Keys, ttl \in TTLs :
                (/\ GetKeychainPasswordBegin(c, k, ttl)
                 /\ cacheFile[k].present
                 /\ now - cacheFile[k].timestamp >= ttl) =>
                    /\ lookups' = lookups + 1
                    /\ lastDone' = lastDone
          /\ \A c \in 1..MaxCalls :
                GetKeychainPasswordEnd(c, FALSE) =>
                    LET k == calls[c].key
                    IN /\ lastDone'.ret = StoreValue(store[k])
                       /\ cacheFile'[k] = Entry(StoreValue(store[k]), calls[c].ts)]_vars
    /\ [](DEFAULT_TTL = 30 * 60 * 1000)

\* a call with ttl 0 is waiting for the store although the cache it loaded
\* holds an entry for its key written at this very millisecond, and the store
\* has another value by now
C14_Witness ==
    \E c \in 1..MaxCalls :
        /\ calls[c].st = "wait" /\ calls[c].key = ClaudeKey
        /\ calls[c].snap[ClaudeKey] = Entry("credA", calls[c].ts)
        /\ store[ClaudeKey] = "credB"

(***************************************************************************)
(* The fetch cycle without a credential                                    *)
(***************************************************************************)
\* the cycle's first credential read found nothing
FirstReadAbsent == Len(log) >= 1 /\ log[1] = Call("readCreds", "", "none")

\* what the credential-absent step does: autoLogin() is called, once; the
\* credential is read once more if and only if autoLogin() returned true; and
\* when that second read finds nothing either, the cycle ends there
AbsentStep ==
    /\ Len(log) >= 2 /\ log[2].op = "autoLogin"
    /\ Cardinality(CallsOf("autoLogin")) = 1
    /\ Cardinality(CallsOf("readCreds")) = (IF log[2].out = "failed" THEN 1 ELSE 2)
    /\ log[2].out # "failed" => log[3].op = "readCreds"
    /\ log[2].out = "failed" => Len(log) = 2
    /\ (log[2].out # "failed" /\ log[3].out = "none") => Len(log) = 3

\* C15 as stated: in a cycle of any of the four providers whose first
\* credential read finds nothing, the credential-absent step is taken.
C15_AbsentThenLogin == (CycleEnded /\ FirstReadAbsent) => AbsentStep

\* C15: in a cycle of Anthropic or Gemini whose first credential read finds
\* nothing, the credential-absent step is taken; a cycle of OpenAI or Cursor
\* whose credential read finds nothing ends with that one read, without a
\* call of autoLogin().
C15_AbsentThenLoginWhereSupported ==
    (CycleEnded /\ FirstReadAbsent) =>
        IF prov \in LoginProviders THEN AbsentStep ELSE Len(log) = 1

\* an Anthropic cycle found no credential, launched the login, read the
\* store again past the cache, found nothing and ended
C15_Witness ==
    /\ prov = "claude" /\ CycleEnded
    /\ log = <<Call("readCreds", "", "none"), Call("autoLogin", "", "launched"),
               Call("readCreds", "", "none")>>

(***************************************************************************)
(* The login launch that fails                                             *)
(***************************************************************************)
\* C16: an autoLogin() call whose launch helper returns false or throws
\* returns false and leaves lastLoginLaunchAt as it was; and the autoLogin()
\* call that follows such a call on the same provider is past the cooldown
\* check and tries the launch again.
C16_LaunchFailure ==
    /\ [](\A p \in LoginProviders :
            LET c == lastCall[p]
            IN (c.called /\ c.attempted /\ c.outcome \in {"failed", "threw"}) =>
                  /\ c.ret = FALSE
                  /\ ~c.launched
                  /\ c.after = c.before
                  /\ lastLoginLaunchAt[p] = c.before
                  /\ c.count = c.countBefore)
    /\ [][\A p \in LoginProviders, o \in LaunchOutcomes :
            (/\ AutoLogin(p, o)
             /\ lastCall[p].called /\ lastCall[p].attempted
             /\ lastCall[p].outcome \in {"failed", "threw"}) =>
                /\ lastCall'[p].attempted
                /\ o = "started" => (lastCall'[p].launched /\ lastCall'[p].ret)]_vars

\* the launch helper has thrown in Anthropic's autoLogin(); and in Gemini's
\* autoLogin(), called when the cooldown of an earlier launch was over, the
\* helper has returned false
C16_Witness ==
    /\ lastCall["claude"].called /\ lastCall["claude"].attempted
    /\ lastCall["claude"].outcome = "threw" /\ ~lastCall["claude"].ret
    /\ lastCall["gemini"].called /\ lastCall["gemini"].attempted
    /\ lastCall["gemini"].outcome = "failed" /\ ~lastCall["gemini"].ret
    /\ lastCall["gemini"].before # 0
    /\ launches["gemini"] = 1

(***************************************************************************)
(* Login completion: Anthropic's cycles while the user logs in             *)
(***************************************************************************)
\* the usage endpoint as it answers a bearer token here: it accepts the token
\* of the new login and rejects any older one with a 401
UsageAnswer(token) == IF token = "tokB" THEN "ok" ELSE "e401"

\* the time between two polls: the default interval, or one as long as the
\* cache TTL (--interval, part_006 line 191); two default intervals take the
\* clock to the end of the login cooldown
ObserveSteps == {60000, DEFAULT_TTL}

\* One step of Anthropic's fetch(): it is called, or the call it awaits
\* returns.  The store answers every lookup, the upstream accepts the new
\* token; a launch starts the flow or fails.
CycleStep ==
    \/ \E c \in 1..MaxCalls, o \in {"started", "failed"} :
          ClaudeStart(c, o) /\ UNCHANGED <<clockVars, fileVars, runVars, formatVars, overlapVars, clearVars>>
    \/ \E o \in {"started", "failed"} :
          ClaudeCredsRead(FALSE, o) /\ UNCHANGED <<clockVars, fileVars, runVars, formatVars, overlapVars, clearVars>>
    \/ \E out \in ProfileOutcomes :
          ClaudeProfile(out) /\ UNCHANGED <<clockVars, cacheVars, fileVars, runVars, formatVars, overlapVars, clearVars>>
    \/ \E o \in {"started", "failed"} :
          ClaudeUsage(UsageAnswer(loc.token), o) /\ UNCHANGED <<clockVars, cacheVars, fileVars, runVars, formatVars, overlapVars, clearVars>>
    \/ \E c \in 1..MaxCalls : ClaudeReread(c) /\ UNCHANGED <<clockVars, fileVars, runVars, formatVars, overlapVars, clearVars>>
    \/ ClaudeCredsReread(FALSE) /\ UNCHANGED <<clockVars, fileVars, runVars, formatVars, overlapVars, clearVars>>
    \/ ClaudeRetry(UsageAnswer(loc.retryToken)) /\ UNCHANGED <<clockVars, cacheVars, fileVars, runVars, formatVars, overlapVars, clearVars>>
    \/ \E out \in ProfileOutcomes :
          ClaudeProfile2(out) /\ UNCHANGED <<clockVars, cacheVars, fileVars, runVars, formatVars, overlapVars, clearVars>>

\* The flow that autoLogin() launched comes to its end with the user logged
\* in: the store holds the new credential.
FlowLogin ==
    /\ FlowFinish("claude")
    /\ KeychainLogin("credB")
    /\ UNCHANGED <<clockVars, fileVars, fetchVars, runVars, formatVars, overlapVars, clearVars>>

\* ... or without a login (the user closes the window)
FlowAbandoned ==
    /\ FlowFinish("claude")
    /\ UNCHANGED <<clockVars, cacheVars, fileVars, fetchVars, runVars, formatVars, overlapVars, clearVars>>

NextObserve ==
    \/ CycleStep
    \/ FlowLogin
    \/ FlowAbandoned
    \/ \E d \in ObserveSteps :
          PollTick(d) /\ UNCHANGED <<cacheVars, loginVars, fileVars, fetchVars, runVars, formatVars, overlapVars, clearVars>>

InitObserve ==
    /\ now = StartTime /\ ticks = 0
    /\ prov = "claude"
    /\ manual = [usage_text |-> T("manual usage"), reset_time |-> T("manual reset")]
    /\ missingOauth = FALSE
    /\ store \in {[k \in Keys |-> IF k = ClaudeKey THEN v ELSE ""] : v \in {"", "credA"}}
    /\ storeChanges = 0
    /\ cacheFile \in InitCacheFiles(store)
    /\ calls = NoCalls
    /\ lastRead = NoReads
    /\ lastDone = NoDone
    /\ lookups = 0
    /\ lastLoginLaunchAt = [p \in LoginProviders |-> 0]
    /\ launches = [p \in LoginProviders |-> 0]
    /\ prevLaunchAt = [p \in LoginProviders |-> 0]
    /\ firstLaunchAt = [p \in LoginProviders |-> 0]
    /\ flow = [p \in LoginProviders |-> "none"]
    /\ lastCall = [p \in LoginProviders |-> NoCall]
    /\ files = [f \in FilePaths |-> Absent]
    /\ fileWrites = 0
    /\ lastFileRead = NoFileRead
    /\ pc = "idle"
    /\ loc = Loc0
    /\ log = << >>
    /\ result = NoResult
    /\ cycles = 0
    /\ cachedResults = [k \in RunKeys |-> NoCached]
    /\ task = [r \in 1..MaxPolls |-> [k \in RunKeys |-> "none"]]
    /\ pending = [r \in 1..MaxPolls |-> FALSE]
    /\ polls = 0
    /\ lastSettle = NoSettle
    /\ fnInput = NoInput /\ fnOutput = NoOutput
    /\ fetches = NoFetches
    /\ cleared = {}

\* Every call that fetch() awaits returns (the requests and the store lookup
\* have timeouts), and while polls are left the next fetch() is called.
SpecObserve == InitObserve /\ [][NextObserve]_vars /\ WF_vars(CycleStep)

\* the login has completed: the store holds the credential the upstream accepts
LoginDone == store[ClaudeKey] = "credB"

\* the cycle has returned live usage and no error
LiveUsage ==
    /\ pc = "idle" /\ result.returned /\ result.error = ""
    /\ loc.usage = FormatUsage("ok").text

\* C17: a cycle in which autoLogin() has launched the flow comes to its end
\* whether or not the flow ever does; a cycle that starts when the cache has
\* no entry or one whose TTL has elapsed goes to the store with its first
\* read; and once the login has completed, a cycle whose first read goes to
\* the store, and a cycle whose autoLogin() has returned true so that the
\* credential is read again, returns live usage and no error.
C17_LoginObserved ==
    /\ [][\A c \in 1..MaxCalls, o \in LaunchOutcomes :
            (ClaudeStart(c, o) /\ ~CacheFresh(cacheFile[ClaudeKey], now, DEFAULT_TTL)) =>
                pc' = "a_wait1"]_vars
    /\ (pc # "idle" /\ flow["claude"] = "running") ~> (pc = "idle")
    /\ (LoginDone /\ pc \in {"a_wait1", "a_reread"}) ~> LiveUsage

\* the login was launched in a cycle that found nothing and ended; the user
\* has logged in since; the cycle a cache TTL later has gone to the store and
\* returned live usage
C17_Witness ==
    /\ LiveUsage /\ cycles = 2 /\ LoginDone
    /\ flow["claude"] = "finished" /\ launches["claude"] = 1
    /\ log[1] = Call("readCreds", "tokB", "found")
    /\ now - firstLaunchAt["claude"] >= DEFAULT_TTL
    /\ lookups = 3

(***************************************************************************)
(* Credentials that cannot be read                                         *)
(***************************************************************************)
\* no credential file of any provider exists
NoFiles == [f \in FilePaths |-> Absent]

\* the credential that the cycle's reads have seen is not JSON: the secret in
\* the store (and in the cache) for Anthropic, the legacy file for Gemini, the
\* new-path file (after the migration) for OpenAI
Malformed ==
    IF prov = "claude"
    THEN /\ store[ClaudeKey] = "garbage" /\ storeChanges = 0
         /\ cacheFile[ClaudeKey].present => cacheFile[ClaudeKey].value = "garbage"
    ELSE IF prov = "gemini" THEN files["geminiLegacy"] = Garbage /\ fileWrites = 0
    ELSE IF prov = "openai" THEN files["codexNew"] = Garbage
    ELSE FALSE

\* C18: readCodexAuth, readGeminiCreds and readClaudeCredentials give the
\* same "no credential" result for a credential that is missing and for one
\* that is not JSON, whatever the other files hold; and a fetch cycle that
\* reads a credential that is not JSON records the read as one that found
\* nothing, takes the branch of the absent credential and does not throw.
C18_ReadsNeverThrow ==
    /\ ReadGeminiCreds(NoFiles) = NoCreds
    /\ ReadGeminiCreds([files EXCEPT !["geminiLegacy"] = Garbage]) = NoCreds
    /\ ReadGeminiCreds([files EXCEPT !["geminiLegacy"] = Absent,
                                     !["geminiNew"] = Garbage]) = NoCreds
    /\ ReadCodexAuth(NoFiles) = NoAuth
    /\ ReadCodexAuth([files EXCEPT !["codexNew"] = Garbage]) = NoAuth
    /\ ReadCodexAuth([files EXCEPT !["codexNew"] = Absent,
                                   !["codexLegacy"] = Garbage]) = NoAuth
    /\ ParseClaude(StoreValue("")) = NoClaudeCreds
    /\ ParseClaude("garbage") = NoClaudeCreds
    /\ (Len(log) >= 1 /\ Malformed) =>
          /\ log[1] = Call("readCreds", "", "none")
          /\ ~loc.hadCreds
          /\ ~result.threw

\* a Gemini cycle whose credential file is not JSON has ended with a result
C18_Witness ==
    /\ prov = "gemini" /\ CycleEnded /\ Malformed
    /\ result.returned /\ log[1] = Call("readCreds", "", "none")

(***************************************************************************)
(* The manual fallback                                                     *)
(***************************************************************************)
\* the status line of the SubscriptionInfo that a cycle ending with the
\* locals l returns (anthropic.ts 151-155 and 215-219, gemini.ts 302,
\* openai.ts 175, part_001 116)
StatusLine(l) ==
    IF prov = "claude" THEN l.statusLine
    ELSE IF prov = "gemini"
    THEN OrElse(l.status, IF l.authInProgress THEN T("Re-auth in progress")
                          ELSE T("Gemini CLI not detected"))
    ELSE IF prov = "openai" THEN OrElse(l.status, T("Codex login not detected"))
    ELSE OrElse(l.status, T("cursor-agent login not detected"))

\* a manual usage_text with something visible in it is configured
ManualConfigured == Truthy(Trim(manual.usage_text))

\* C19: the usage_text that a fetch() of any provider returns is, when the
\* cycle obtained no live usage text, the status line followed by a line
\* break and the manual usage_text if one is configured, and the status line
\* alone (the placeholder, were it empty) otherwise; and when the cycle
\* obtained live usage text, it is the status line followed by that text,
\* whatever the manual usage_text is.
C19_ManualFallback ==
    result.returned =>
        LET sl == StatusLine(loc)
        IN IF Truthy(loc.usage)
           THEN result.usage_text = sl \o <<"\n">> \o loc.usage
           ELSE IF ManualConfigured
           THEN result.usage_text = sl \o <<"\n">> \o manual.usage_text
           ELSE result.usage_text = (IF Truthy(sl) THEN sl ELSE Placeholder)

\* a Cursor cycle whose four requests all failed has returned the status line
\* and the configured manual text
C19_Witness ==
    /\ prov = "cursor" /\ CycleEnded /\ result.returned
    /\ loc.token # "" /\ ~Truthy(loc.usage) /\ ManualConfigured
    /\ result.usage_text = StatusLine(loc) \o <<"\n">> \o T("manual usage")

(***************************************************************************)
(* The cycle that finds no credential                                      *)
(***************************************************************************)
\* the cycle has ended without any of its credential reads finding one
NoCredentialFound ==
    /\ CycleEnded /\ result.returned /\ FirstReadAbsent
    /\ \A i \in CallsOf("readCreds") : log[i].out = "none"

\* C20: the SubscriptionInfo that a cycle of any provider returns when it
\* found no credential has no error: the status line alone tells that nobody
\* is logged in.
C20_AbsenceIsNoError == NoCredentialFound => result.error = ""

(***************************************************************************)
(* Cursor: four data sources, any of which may fail                        *)
(***************************************************************************)
\* the line is one of the lines of the text
HasLine(text, line) == \E i \in 1..Len(text) : text[i] = line

\* the lines of formatCursor's usage that stem from the request `m` alone
PlanLine == "Plan: Pro"
ExtraLine == "extra: $20"

\* what the requests line must be for the fast-request and usage-event
\* requests that succeeded
RequestsLine(oks) ==
    IF "GetFastRequests" \in oks
    THEN IF "GetFilteredUsageEvents" \in oks THEN "fast requests: 20%  (100/500)"
         ELSE "fast requests: 0%  (0/500)"
    ELSE IF "GetFilteredUsageEvents" \in oks THEN "used requests: 100" ELSE ""

\* C21: the four requests of the Cursor fetch are awaited together, and any
\* subset of them may fail: the plan line, the requests line and the extra
\* line are there exactly when the requests behind them succeeded (a failed
\* request contributes nothing and takes no other line away), formatCursor
\* sets its error exactly when it has no line at all, and a cycle that made
\* the requests returns (it does not throw) with the lines that formatCursor
\* produced, and with an error exactly when there is none.
C21_PartialData ==
    /\ \A oks \in SUBSET CursorMethods :
          LET r == FormatCursor(oks)
          IN /\ HasLine(r.usage, PlanLine) <=> "GetPlanInfo" \in oks
             /\ HasLine(r.usage, ExtraLine) <=> "GetHardLimit" \in oks
             /\ RequestsLine(oks) # "" => HasLine(r.usage, RequestsLine(oks))
             /\ r.usage = << >> <=> oks = {}
             /\ r.error # "" <=> r.usage = << >>
             /\ Truthy(r.resetTime) <=> "GetPlanInfo" \in oks
    /\ (prov = "cursor" /\ CycleEnded /\ CallsOf("cursorApi") # {}) =>
          /\ Len(log) = 2 /\ log[2].token = log[1].token
          /\ result.returned /\ ~result.threw
          /\ \E oks \in SUBSET CursorMethods :
                /\ loc.usage = FormatCursor(oks).usage
                /\ log[2].out = "err" <=> oks = {}
          /\ result.error # "" <=> loc.usage = << >>
          /\ Truthy(loc.usage) =>
                \A i \in 1..Len(loc.usage) : HasLine(result.usage_text, loc.usage[i])
          /\ loc.usage = << >> =>
                result.usage_text = UsageText(OrElse(loc.status, T("cursor-agent login not detected")),
                                              manual.usage_text)

\* a Cursor cycle in which the plan request alone succeeded: it ends without
\* error and shows the plan line
C21_Witness ==
    /\ prov = "cursor" /\ CycleEnded /\ Len(log) = 2 /\ log[2] = Call("cursorApi", "cursorTok", "ok")
    /\ loc.usage = FormatCursor({"GetPlanInfo"}).usage
    /\ result.returned /\ result.error = ""
    /\ HasLine(result.usage_text, PlanLine)
    /\ ~HasLine(result.usage_text, ExtraLine)

(***************************************************************************)
(* The formatting functions on their inputs                                *)
(***************************************************************************)
NextFormat ==
    \/ GetCliStatusCall /\ UNCHANGED <<clockVars, cacheVars, loginVars, fileVars, fetchVars, runVars, overlapVars, clearVars>>
    \/ FormatQuotaCall /\ UNCHANGED <<clockVars, cacheVars, loginVars, fileVars, fetchVars, runVars, overlapVars, clearVars>>
    \/ FormatUsageCall /\ UNCHANGED <<clockVars, cacheVars, loginVars, fileVars, fetchVars, runVars, overlapVars, clearVars>>

InitFormat ==
    /\ now = StartTime /\ ticks = 0
    /\ store = [k \in Keys |-> ""]
    /\ storeChanges = 0
    /\ cacheFile = EmptyCache
    /\ calls = NoCalls
    /\ lastRead = NoReads
    /\ lastDone = NoDone
    /\ lookups = 0
    /\ lastLoginLaunchAt = [p \in LoginProviders |-> 0]
    /\ launches = [p \in LoginProviders |-> 0]
    /\ prevLaunchAt = [p \in LoginProviders |-> 0]
    /\ firstLaunchAt = [p \in LoginProviders |-> 0]
    /\ flow = [p \in LoginProviders |-> "none"]
    /\ lastCall = [p \in LoginProviders |-> NoCall]
    /\ files = [f \in FilePaths |-> Absent]
    /\ fileWrites = 0
    /\ lastFileRead = NoFileRead
    /\ prov = "claude"
    /\ manual = [usage_text |-> EmptyText, reset_time |-> EmptyText]
    /\ missingOauth = FALSE
    /\ pc = "idle"
    /\ loc = Loc0
    /\ log = << >>
    /\ result = NoResult
    /\ cycles = 0
    /\ cachedResults = [k \in RunKeys |-> NoCached]
    /\ task = [r \in 1..MaxPolls |-> [k \in RunKeys |-> "none"]]
    /\ pending = [r \in 1..MaxPolls |-> FALSE]
    /\ polls = 0
    /\ lastSettle = NoSettle
    /\ fnInput \in {[NoInput EXCEPT !.fn = "getCliStatus", !.cliName = c, !.run = r] :
                       c \in CliNames, r \in ExecRuns}
                   \cup {[NoInput EXCEPT !.fn = "formatQuota", !.buckets = b] : b \in BucketLists}
                   \cup {[NoInput EXCEPT !.fn = "formatUsage", !.five_hour = f, !.seven_day = s] :
                            f \in Windows, s \in Windows}
    /\ fnOutput = NoOutput
    /\ fetches = NoFetches
    /\ cleared = {}

SpecFormat == InitFormat /\ [][NextFormat]_vars

(***************************************************************************)
(* The status of a companion CLI                                           *)
(***************************************************************************)
\* what getCliStatus has captured of the command: stdout, and for codex
\* stderr when stdout is empty
Captured(cliName, run) ==
    IF cliName = "codex" /\ ExecCommand(run).stdout = "" THEN ExecCommand(run).stderr
    ELSE ExecCommand(run).stdout

\* the captured output tells of a login
LoggedInPattern(cliName, run) ==
    Includes(ToLowerCase(StripAnsi(Captured(cliName, run))), "logged in")

\* C22: getCliStatus returns for every CLI name (the model's getCliStatus has
\* no path on which it throws); it returns null when the binary is missing,
\* when the command exits with a code other than 0, when it times out and
\* when nothing was captured; and what it returns is not null only when the
\* captured output matches the logged-in pattern, or for gemini when the
\* binary exists.
C22_StatusOrNull ==
    (fnOutput.done /\ fnInput.fn = "getCliStatus") =>
        LET cli == fnInput.cliName
            run == fnInput.run
        IN /\ (run.kind # "ok" \/ Captured(cli, run) = "") => fnOutput.status = NULL
           /\ fnOutput.status # NULL =>
                 IF cli = "gemini" THEN run.kind = "ok" /\ run.stdout # ""
                 ELSE cli \in {"codex", "cursor-agent"} /\ LoggedInPattern(cli, run)


(***************************************************************************)
(* The reset time of the Gemini quota                                      *)
(***************************************************************************)
\* the reset times that the buckets report
ReportedResets(buckets) == {buckets[i].resetTime : i \in 1..Len(buckets)} \ {""}

\* the smallest string of a set that is not empty
Smallest(S) == CHOOSE s \in S : \A o \in S : o = s \/ StrLess(s, o)

Reverse(seq) == [i \in 1..Len(seq) |-> seq[Len(seq) + 1 - i]]

\* C23: for a list of buckets that is not empty, the reset time that
\* formatQuota returns is the one formatted from the smallest resetTime (as
\* strings compare) that a bucket reports, whatever the order of the buckets
\* (the reversed list gives the same), and it is empty when no bucket reports
\* a reset time.
C23_EarliestReset ==
    (fnOutput.done /\ fnInput.fn = "formatQuota" /\ fnInput.buckets # << >>) =>
        LET R == ReportedResets(fnInput.buckets)
        IN /\ R = {} => fnOutput.resetTime = ""
           /\ R # {} => fnOutput.resetTime = "Reset: " \o ResetStr(Smallest(R))
           /\ FormatQuota(Reverse(fnInput.buckets)).resetTime = fnOutput.resetTime

\* two buckets, the one that sorts first with the later reset time
C23_Witness ==
    /\ fnOutput.done /\ fnInput.fn = "formatQuota"
    /\ fnInput.buckets = <<Bucket("gemini-flash", TRUE, 600, "2026-01-02T03:04:00Z"),
                           Bucket("gemini-pro", TRUE, 600, "2026-01-01T23:30:00Z")>>
    /\ fnOutput.resetTime = "Reset: 01-01 23:30 +00"
    /\ fnOutput.usage = "gemini-flash : 40.0% Used\ngemini-pro   : 40.0% Used"

(***************************************************************************)
(* A reset time that is no date                                            *)
(***************************************************************************)
\* new Date(s) is an invalid date
Unparsable(s) == s # "" /\ ~ParseDate(s).valid

\* C24: when a reset timestamp cannot be parsed as a date, the reset string
\* shown for it is the first 16 characters of the timestamp: for the
\* earliest reset of the Gemini buckets, and for the resets_at of each
\* Anthropic window.
C24_UnparsableFallback ==
    fnOutput.done =>
        /\ (fnInput.fn = "formatQuota" /\ Unparsable(EarliestReset(fnInput.buckets, ""))) =>
              fnOutput.resetTime =
                  "Reset: " \o Substring0(EarliestReset(fnInput.buckets, ""), 16)
        /\ (fnInput.fn = "formatUsage" /\ fnInput.five_hour.present
               /\ Unparsable(fnInput.five_hour.resets_at)) =>
              Includes(fnOutput.usage,
                       "5h Window: 40%  Reset: " \o Substring0(fnInput.five_hour.resets_at, 16))
        /\ (fnInput.fn = "formatUsage" /\ fnInput.seven_day.present
               /\ Unparsable(fnInput.seven_day.resets_at)) =>
              Includes(fnOutput.usage,
                       "7d Window: 40%  Reset: " \o Substring0(fnInput.seven_day.resets_at, 16))


(***************************************************************************)
(* The login cooldown under overlapping fetch cycles                       *)
(***************************************************************************)
NextOverlap ==
    \/ \E i \in 1..MaxOverlap, p \in LoginProviders :
          FetchBegin(i, p)
          /\ UNCHANGED <<clockVars, cacheVars, loginVars, fileVars, fetchVars, runVars, formatVars, clearVars>>
    \/ \E i \in 1..MaxOverlap, o \in {"started", "failed"} :
          FetchLogin(i, o)
          /\ UNCHANGED <<clockVars, cacheVars, fileVars, fetchVars, runVars, formatVars, clearVars>>
    \/ \E i \in 1..MaxOverlap :
          FetchEnd(i)
          /\ UNCHANGED <<clockVars, cacheVars, loginVars, fileVars, fetchVars, runVars, formatVars, clearVars>>
    \/ \E d \in OverlapSteps :
          OverlapTick(d)
          /\ UNCHANGED <<cacheVars, loginVars, fileVars, fetchVars, runVars, formatVars, overlapVars, clearVars>>

InitOverlap ==
    /\ now = StartTime /\ ticks = 0
    /\ store = [k \in Keys |-> ""]
    /\ storeChanges = 0
    /\ cacheFile = EmptyCache
    /\ calls = NoCalls
    /\ lastRead = NoReads
    /\ lastDone = NoDone
    /\ lookups = 0
    /\ lastLoginLaunchAt = [p \in LoginProviders |-> 0]
    /\ launches = [p \in LoginProviders |-> 0]
    /\ prevLaunchAt = [p \in LoginProviders |-> 0]
    /\ firstLaunchAt = [p \in LoginProviders |-> 0]
    /\ flow = [p \in LoginProviders |-> "none"]
    /\ lastCall = [p \in LoginProviders |-> NoCall]
    /\ files = [f \in FilePaths |-> Absent]
    /\ fileWrites = 0
    /\ lastFileRead = NoFileRead
    /\ prov = "claude"
    /\ manual = [usage_text |-> EmptyText, reset_time |-> EmptyText]
    /\ missingOauth = FALSE
    /\ pc = "idle"
    /\ loc = Loc0
    /\ log = << >>
    /\ result = NoResult
    /\ cycles = 0
    /\ cachedResults = [k \in RunKeys |-> NoCached]
    /\ task = [r \in 1..MaxPolls |-> [k \in RunKeys |-> "none"]]
    /\ pending = [r \in 1..MaxPolls |-> FALSE]
    /\ polls = 0
    /\ lastSettle = NoSettle
    /\ fnInput = NoInput /\ fnOutput = NoOutput
    /\ fetches = NoFetches
    /\ cleared = {}

SpecOverlap == InitOverlap /\ [][NextOverlap]_vars

\* the step is an autoLogin() call of an instance of provider p
LoginStepOf(p) ==
    \E i \in 1..MaxOverlap, o \in LaunchOutcomes : fetches[i].p = p /\ FetchLogin(i, o)

\* C25: the cooldown state is one timestamp per provider.  It is 0 until the
\* provider's first launch; it changes only in an autoLogin() call of an
\* instance of that provider whose launch starts, and then to the time of
\* the call; whether a call launches depends on its provider's timestamp
\* alone, whichever instance wrote it; and a call of one provider leaves the
\* timestamp and the launches of the other as they are.
C25_CooldownPerProvider ==
    /\ [](\A p \in LoginProviders : launches[p] = 0 => lastLoginLaunchAt[p] = 0)
    /\ [][\A p \in LoginProviders :
            /\ lastLoginLaunchAt'[p] # lastLoginLaunchAt[p] =>
                  /\ LoginStepOf(p)
                  /\ launches'[p] = launches[p] + 1
                  /\ lastLoginLaunchAt'[p] = now
            /\ LoginStepOf(p) =>
                  /\ launches'[p] > launches[p] <=>
                        /\ now - lastLoginLaunchAt[p] >= LOGIN_COOLDOWN_MS
                        /\ lastCall'[p].outcome = "started"
                  /\ \A q \in LoginProviders \ {p} :
                        /\ lastLoginLaunchAt'[q] = lastLoginLaunchAt[q]
                        /\ launches'[q] = launches[q]]_vars

\* an instance of Anthropic has launched a flow, a later instance of Anthropic
\* is held by that launch's cooldown, and an instance of Gemini launches its
\* own flow inside that cooldown
C25_Witness ==
    /\ launches["claude"] = 1 /\ launches["gemini"] = 1
    /\ lastLoginLaunchAt["gemini"] - lastLoginLaunchAt["claude"] = 59000
    /\ \E i, j \in 1..MaxOverlap :
          /\ fetches[i].p = "claude" /\ fetches[i].login = "cooldown"
          /\ fetches[j].p = "gemini" /\ fetches[j].login = "launched"

\* C26: whatever the interleaving of the fetch() calls of a provider that run
\* at the same time, a launch of the provider is at least 120 s after the
\* launch before it: an autoLogin() call made less than 120 s after a launch
\* launches nothing, and one that launches is the first of the process or
\* comes at least 120 s after the timestamp it found.
C26_NoDuplicateLaunch ==
    /\ [][\A p \in LoginProviders :
            launches'[p] > launches[p] =>
               /\ launches'[p] = launches[p] + 1
               /\ prevLaunchAt[p] = 0 \/ now - prevLaunchAt[p] >= LOGIN_COOLDOWN_MS]_vars
    /\ [](\A p \in LoginProviders :
            (lastCall[p].called /\ lastCall[p].launched) =>
               \/ lastCall[p].countBefore = 0
               \/ lastCall[p].at - lastCall[p].before >= LOGIN_COOLDOWN_MS)

\* two fetch() calls of Anthropic are in flight; one has launched the flow,
\* the other has called autoLogin() 59 s later and was held by the cooldown
C26_Witness ==
    /\ fetches[1].p = "claude" /\ fetches[2].p = "claude"
    /\ fetches[1].login = "launched" /\ fetches[2].login = "cooldown"
    /\ lastCall["claude"].at - lastLoginLaunchAt["claude"] = 59000
    /\ launches["claude"] = 1

(***************************************************************************)
(* Store reads of a provider that has never logged in                      *)
(***************************************************************************)
\* the credential of key k has never been present in the store
NeverPresent(k) == store[k] = "" /\ storeChanges = 0

\* the last store read of key k that returned began less than the TTL ago
WithinTTLOfLastRead(k) ==
    lastRead[k].present /\ now - lastRead[k].timestamp < DEFAULT_TTL

\* this step starts a store lookup for key k
InvokesStore(k) ==
    \E c \in 1..MaxCalls :
        calls[c].st = "idle" /\ calls'[c].st = "wait" /\ calls'[c].key = k

\* C27: for a keychain-backed provider whose credential has never been
\* present, no fetch cycle invokes the store for its key within the TTL
\* window of the last store read of that key: at most one store invocation
\* per TTL window across cycles.
C27_StoreReadsPerTTL ==
    [][\A k \in Keys :
          NeverPresent(k) /\ WithinTTLOfLastRead(k) => ~InvokesStore(k)]_vars

(***************************************************************************)
(* The life of a cache entry: reads that overlap, and clearCache           *)
(***************************************************************************)
\* one TTL and a bit, so that an entry is seen fresh and expired
ClearSteps == {60000, DEFAULT_TTL}

NextClear ==
    \/ \E c \in 1..MaxCalls, k \in Keys :
          /\ CacheFresh(cacheFile[k], now, DEFAULT_TTL) \/ lookups < MaxLookups
          /\ GetKeychainPasswordBegin(c, k, DEFAULT_TTL)
          /\ cleared' = cleared \ {k}
          /\ UNCHANGED <<clockVars, loginVars, fileVars, fetchVars, runVars, formatVars, overlapVars>>
    \/ \E c \in 1..MaxCalls, failed \in BOOLEAN :
          GetKeychainPasswordEnd(c, failed)
          /\ UNCHANGED <<clockVars, loginVars, fileVars, fetchVars, runVars, formatVars, overlapVars, clearVars>>
    \/ \E serviceName \in Keys \cup {NULL} :
          /\ ClearCache(serviceName)
          /\ cleared' = IF serviceName # NULL THEN cleared \cup {serviceName} ELSE Keys
          /\ UNCHANGED <<clockVars, loginVars, fileVars, fetchVars, runVars, formatVars, overlapVars>>
    \/ \E d \in ClearSteps :
          Tick(d)
          /\ UNCHANGED <<cacheVars, loginVars, fileVars, fetchVars, runVars, formatVars, overlapVars, clearVars>>

InitClear ==
    /\ now = StartTime /\ ticks = 0
    /\ store \in InitStore
    /\ storeChanges = 0
    /\ cacheFile = EmptyCache
    /\ calls = NoCalls
    /\ lastRead = NoReads
    /\ lastDone = NoDone
    /\ lookups = 0
    /\ lastLoginLaunchAt = [p \in LoginProviders |-> 0]
    /\ launches = [p \in LoginProviders |-> 0]
    /\ prevLaunchAt = [p \in LoginProviders |-> 0]
    /\ firstLaunchAt = [p \in LoginProviders |-> 0]
    /\ flow = [p \in LoginProviders |-> "none"]
    /\ lastCall = [p \in LoginProviders |-> NoCall]
    /\ files = [f \in FilePaths |-> Absent]
    /\ fileWrites = 0
    /\ lastFileRead = NoFileRead
    /\ prov = "claude"
    /\ manual = [usage_text |-> EmptyText, reset_time |-> EmptyText]
    /\ missingOauth = FALSE
    /\ pc = "idle"
    /\ loc = Loc0
    /\ log = << >>
    /\ result = NoResult
    /\ cycles = 0
    /\ cachedResults = [k \in RunKeys |-> NoCached]
    /\ task = [r \in 1..MaxPolls |-> [k \in RunKeys |-> "none"]]
    /\ pending = [r \in 1..MaxPolls |-> FALSE]
    /\ polls = 0
    /\ lastSettle = NoSettle
    /\ fnInput = NoInput /\ fnOutput = NoOutput
    /\ fetches = NoFetches
    /\ cleared = {}

SpecClear == InitClear /\ [][NextClear]_vars

\* the lookup of a store read of key k returns in this step
StoreReadReturns(k) ==
    \E c \in 1..MaxCalls :
        calls[c].st = "wait" /\ calls[c].key = k /\ calls'[c].st = "idle"

\* C28: the life of a cache entry. An entry is removed only by clearCache;
\* an entry, expired or not, stays as it is until a store read of its key
\* overwrites it; clearCache(name) removes exactly that key and leaves every
\* other key's value and timestamp unchanged; clearCache() removes all
\* entries; and the first read of a cleared key invokes the store.
C28_EntryLifecycle ==
    [][\A k \in Keys :
          /\ cacheFile[k].present /\ ~cacheFile'[k].present
                => ClearCache(k) \/ ClearCache(NULL)
          /\ cacheFile[k].present /\ cacheFile'[k] # cacheFile[k]
                => ClearCache(k) \/ ClearCache(NULL) \/ StoreReadReturns(k)
          /\ ClearCache(k)
                => /\ ~cacheFile'[k].present
                   /\ \A j \in Keys \ {k} : cacheFile'[j] = cacheFile[j]
          /\ ClearCache(NULL) => \A j \in Keys : ~cacheFile'[j].present
          /\ k \in cleared /\ k \notin cleared' => lookups' = lookups + 1]_vars

(***************************************************************************)
(* Gemini: the refresh grant and autoLogin()                               *)
(***************************************************************************)

\* the call before position i left fetch() without a usable token: no
\* credentials or no access token in them, a 401 from loadCodeAssist, or a
\* refresh that gave nothing
TokenUnusableBefore(i) ==
    /\ i > 1
    /\ \/ log[i-1].op = "readCreds" /\ (log[i-1].out = "none" \/ log[i-1].token = "")
       \/ log[i-1].op = "getProjectId" /\ log[i-1].out = "e401"
       \/ log[i-1].op = "refresh" /\ log[i-1].out \in {"err", "notSent"}

\* the cycle found credentials with a refresh token, and their access token
\* was rejected with 401 or is missing
RefreshPossible ==
    /\ loc.hadCreds /\ loc.refreshToken # ""
    /\ \/ log[1].op = "readCreds" /\ log[1].token = ""
       \/ Len(log) >= 2 /\ log[2].op = "getProjectId" /\ log[2].out = "e401"

\* C29: in a Gemini cycle whose access token is rejected with 401 or missing
\* while a refresh token exists, refreshAccessToken is called before any
\* autoLogin(); autoLogin() is called only when the token is still unusable
\* after that step; and with GEMINI_CLIENT_ID or GEMINI_CLIENT_SECRET empty
\* no refresh request is sent and the fetch writes nothing to the
\* credential files.
C29_RefreshBeforeLogin ==
    /\ [](prov = "gemini" =>
            /\ \A i \in CallsOf("autoLogin") :
                  /\ TokenUnusableBefore(i)
                  /\ RefreshPossible =>
                        \E j \in CallsOf("refresh") : j < i
                  /\ \A j \in CallsOf("refresh") : j < i
            /\ \A j \in CallsOf("refresh") :
                  (log[j].out = "notSent") <=> missingOauth
            /\ missingOauth => pc # "g_refresh")
    /\ [][prov = "gemini" /\ missingOauth /\ files' # files
            => fileWrites' = fileWrites + 1]_vars

\* a cycle whose first token got a 401, whose refresh grant failed, and which
\* then called autoLogin()
C29_Witness ==
    /\ prov = "gemini" /\ ~missingOauth /\ RefreshPossible
    /\ Len(log) >= 4
    /\ log[2].op = "getProjectId" /\ log[2].out = "e401"
    /\ log[3].op = "refresh" /\ log[3].out = "err"
    /\ log[4].op = "autoLogin" /\ log[4].out = "launched"

(***************************************************************************)
(* What autoLogin() returns                                                *)
(***************************************************************************)
\* the last autoLogin() call of provider p started the external flow
LaunchedByCall(p) == lastCall[p].count = lastCall[p].countBefore + 1

\* at that call a flow was believed in progress: the last launch was less
\* than the cooldown before
InCooldownAtCall(p) == lastCall[p].at - lastCall[p].before < LOGIN_COOLDOWN_MS

\* that call reached the launch helper, which did not start the flow
LaunchFailedAtCall(p) ==
    lastCall[p].attempted /\ lastCall[p].outcome \in {"failed", "threw"}

\* C30: autoLogin() of Anthropic and Gemini returns true exactly when the
\* call launched a login flow or a flow is believed in progress (within the
\* cooldown), and false exactly when a launch was attempted and failed.
\* OpenAI's autoLogin() launches nothing, changes no state and returns false,
\* and OpenAI's fetch() never calls autoLogin().
C30_AutoLoginReturn ==
    /\ [](\A p \in LoginProviders :
            lastCall[p].called =>
               /\ lastCall[p].ret <=> (LaunchedByCall(p) \/ InCooldownAtCall(p))
               /\ ~lastCall[p].ret <=> LaunchFailedAtCall(p))
    /\ [](prov = "openai" => CallsOf("autoLogin") = {})
    /\ [](fnInput.fn = "autoLogin" /\ fnOutput.done => fnOutput.status = "false")
    /\ [][fnInput'.fn = "autoLogin" /\ fnInput.fn # "autoLogin"
            => UNCHANGED <<clockVars, cacheVars, loginVars, fileVars, fetchVars>>]_vars

\* an autoLogin() call that returned true without launching: a cycle within
\* the cooldown of the launch of the cycle before
C30_Witness ==
    /\ \E p \in LoginProviders :
          /\ prov = p /\ cycles >= 2
          /\ lastCall[p].called /\ lastCall[p].ret
          /\ ~LaunchedByCall(p) /\ InCooldownAtCall(p)
          /\ launches[p] = 1

(***************************************************************************)
(* The polls of the timer                                                  *)
(***************************************************************************)
\* The polls that the timer starts after the first run() has ended; they are
\* numbered from the first tick of the timer.
NextTimer ==
    \/ \E r \in 1..MaxPolls :
          RunOnTimer(r) /\ UNCHANGED providerVars
    \/ \E r \in 1..MaxPolls, k \in RunKeys, out \in FetchOutcomes :
          UpdateProvider(r, k, out)
          /\ UNCHANGED providerVars
    \/ \E r \in 1..MaxPolls :
          RunEnd(r) /\ UNCHANGED providerVars

InitTimer ==
    /\ now = StartTime /\ ticks = 0
    /\ store = [k \in Keys |-> ""]
    /\ storeChanges = 0
    /\ cacheFile = EmptyCache
    /\ calls = NoCalls
    /\ lastRead = NoReads
    /\ lastDone = NoDone
    /\ lookups = 0
    /\ lastLoginLaunchAt = [p \in LoginProviders |-> 0]
    /\ launches = [p \in LoginProviders |-> 0]
    /\ prevLaunchAt = [p \in LoginProviders |-> 0]
    /\ firstLaunchAt = [p \in LoginProviders |-> 0]
    /\ flow = [p \in LoginProviders |-> "none"]
    /\ lastCall = [p \in LoginProviders |-> NoCall]
    /\ files = [f \in FilePaths |-> Absent]
    /\ fileWrites = 0
    /\ lastFileRead = NoFileRead
    /\ prov = "claude"
    /\ manual = [usage_text |-> EmptyText, reset_time |-> EmptyText]
    /\ missingOauth = FALSE
    /\ pc = "idle"
    /\ loc = Loc0
    /\ log = << >>
    /\ result = NoResult
    /\ cycles = 0
    /\ cachedResults = [k \in RunKeys |-> NoCached]
    /\ task = [r \in 1..MaxPolls |-> [k \in RunKeys |-> "none"]]
    /\ pending = [r \in 1..MaxPolls |-> FALSE]
    /\ polls = 0
    /\ lastSettle = NoSettle
    /\ fnInput = NoInput /\ fnOutput = NoOutput
    /\ fetches = NoFetches
    /\ cleared = {}

SpecTimer == InitTimer /\ [][NextTimer]_vars

\* C31: when two polls of one provider overlap, a result of the poll that
\* started earlier never overwrites the result of a poll that started later,
\* so that after both have finished cachedResults holds the result of the
\* later poll.
C31_LaterCycleWins ==
    [][\A k \in RunKeys :
          cachedResults[k].present /\ cachedResults'[k] # cachedResults[k]
             => cachedResults'[k].run >= cachedResults[k].run]_vars

(***************************************************************************)
(* Gemini: the refreshed token read back                                   *)
(***************************************************************************)
\* C32: after saveGeminiCreds has written the response of a successful
\* refresh, the next readGeminiCreds, with no other writer in between,
\* returns the refreshed access token, whether or not the legacy file exists.
C32_RefreshRoundTrip ==
    [][\A idt \in {"", "jwtUser"} :
          SaveRefreshed(RefreshResponse("new", idt))
             => ReadGeminiCreds(files').at = "new"]_vars

(***************************************************************************)
(* Anthropic: a login flow is launched only without a valid credential     *)
(***************************************************************************)
\* the store holds a credential that the upstream accepts
ValidCredential(raw) == ParseClaude(raw).ok /\ UsageAnswer(ParseClaude(raw).accessToken) = "ok"

\* this step is the call of fetch(): the store is the store at the start of
\* the cycle
CycleStarts == pc = "idle" /\ cycles' = cycles + 1

\* C33: an Anthropic fetch cycle that starts while the OS store holds a valid
\* credential launches no login flow.  Stated for the launch that the call of
\* fetch() makes before its first suspension, where the store at the launch
\* is the store at the start of the cycle.
C33_NoSpuriousLogin ==
    [][CycleStarts /\ launches'["claude"] > launches["claude"]
          => ~ValidCredential(store[ClaudeKey])]_vars

(***************************************************************************)
(* updateProvider: a fetch() that throws or returns nothing                *)
(***************************************************************************)
\* C34: when the fetch() of a provider throws or returns nothing,
\* updateProvider ends without a fault, leaves the provider's cachedResults
\* entry as it was and does not render; cachedResults[key] changes only when
\* a fetch() for that key returns a result.
C34_FaultKeepsResult ==
    /\ [][\A r \in 1..MaxPolls, k \in RunKeys :
            (UpdateProvider(r, k, "threw") \/ UpdateProvider(r, k, "nothing")) =>
                /\ cachedResults'[k] = cachedResults[k]
                /\ ~lastSettle'.rendered
                /\ task'[r][k] = "settled"]_vars
    /\ [][\A k \in RunKeys :
            cachedResults'[k] # cachedResults[k] =>
                /\ lastSettle'.key = k
                /\ lastSettle'.out \in {"returned", "degraded"}
                /\ lastSettle'.rendered
                /\ cachedResults'[k] = Fetched(lastSettle'.run, lastSettle'.out)]_vars

\* the second poll's fetch() of a provider has returned nothing, and the
\* result of the first poll is still stored
C34_Witness ==
    /\ lastSettle.called /\ lastSettle.out = "nothing" /\ lastSettle.run = 2
    /\ cachedResults[lastSettle.key] = Fetched(1, "returned")

(***************************************************************************)
(* The cycle in which the login is picked up                               *)
(***************************************************************************)
\* the upstream call c came back with a successful payload (for the usage
\* calls one that formats without a throw: with lines, or with none)
CallSucceeded(c) ==
    \/ c.op = "getProjectId" /\ c.out = "ok"
    \/ c.op = "getQuota" /\ c.out \in {"ok", "noBuckets"}
    \/ c.op = "fetchUsage" /\ c.out \in {"ok", "noWindows"}
    \/ c.op = "fetchProfile" /\ c.out = "email"

\* The cycle has ended; its autoLogin() at position i returned true, the
\* credential read after it found a token, and every upstream call after that
\* succeeded, the usage call among them.
LoginPickedUp(i) ==
    /\ CycleEnded /\ result.returned
    /\ i \in CallsOf("autoLogin") /\ log[i].out \in {"launched", "cooldown"}
    /\ Len(log) >= i + 2
    /\ log[i+1].op = "readCreds" /\ log[i+1].out = "found" /\ log[i+1].token # ""
    /\ \A j \in (i+2)..Len(log) : CallSucceeded(log[j])
    /\ \E j \in (i+2)..Len(log) : log[j].op \in {"getQuota", "fetchUsage"}

\* the texts that say that a login is under way
LoginUnderWay == {"Re-auth in progress", "Re-auth in progress (",
                  "Login flow started in background"}

\* C35: when, after autoLogin() returned true, the credential read again is
\* present and every retried upstream call of the cycle succeeds, the
\* returned SubscriptionInfo has no error and no 're-auth in progress' or
\* 'login flow started' status, also for a payload without quota buckets
\* (Gemini) or without usage windows (Anthropic).
C35_PickedUpLoginIsClean ==
    [](\A i \in 1..Len(log) :
          LoginPickedUp(i) =>
             /\ result.error = ""
             /\ \A n \in 1..Len(result.usage_text) :
                   result.usage_text[n] \notin LoginUnderWay)


(***************************************************************************)
(* The end of a fetch cycle                                                *)
(***************************************************************************)
\* C36: every fetch cycle ends with a returned SubscriptionInfo, after a
\* bounded number of external calls of which at most one is autoLogin().
C36_CycleTerminates ==
    CycleEnded =>
       /\ result.returned /\ ~result.threw
       /\ Len(log) <= 8
       /\ Cardinality(CallsOf("autoLogin")) <= 1

====
